---- MODULE Spec2Model ----
(***************************************************************************)
(* The task-to-calendar scheduler of src/convex/schema.ts                  *)
(* (POST /api/generate-schedule, scheduleWithRescheduling) as a state      *)
(* machine, and its older copy in src/convex/http.ts (the Http actions).   *)
(*                                                                         *)
(* A Date is its time value in whole minutes since 1970-01-01T00:00Z, or   *)
(* NaN for an Invalid Date.  The runtime's local time zone is UTC, so      *)
(* getHours/getDay/setDate/setHours and toISOString agree on the calendar  *)
(* day.  An ISO datetime string is the record [date, tod] of its           *)
(* "YYYY-MM-DD" prefix (days since 1970-01-01) and its time of day in      *)
(* minutes; a date-only string of a task is [kind, day].                   *)
(***************************************************************************)
EXTENDS Integers, Sequences, FiniteSets, TLC

VARIABLES
    tasks,                \* request body: tasks
    preferences,          \* request body: preferences merged over the defaults
    currentDate,          \* new Date(startDate)
    existingEvents,       \* request body: existingEvents
    now,                  \* Date.now() while this invocation runs
    pc,                   \* position of the handler
    sortedTasks,          \* [...tasks].sort(...)
    allEvents,            \* [...existingEvents] plus every placed task
    scheduledTasks,
    unscheduledTasks,
    movedTasks,           \* events moved to make room (filled by http.ts only)
    taskIndex,            \* 0-based index of the for loop over sortedTasks
    schedulingStartDate,
    schedulingEndDate,
    extendedDeadline,
    d,                    \* loop variable of the day loop
    response,             \* the HTTP response, once sent
    runs,                 \* number of invocations started with this request
    firstResponse,        \* response of the first invocation
    taskTable,            \* Convex table "tasks": _id -> document
    eventTable,           \* Convex table "events": _id -> document
    calendarTable,        \* Convex table "calendars": _id -> document
    created,              \* number of ids each table has issued so far
    call,                 \* the mutation called last, and how it ended
    toggle,               \* the handleStatusToggle flow in progress, if any
    freeRequest,          \* arguments of the last find_free_windows call
    freeWindows           \* <<the array that call returned>>, <<>> before it returns

vars == <<tasks, preferences, currentDate, existingEvents, now, pc, sortedTasks,
          allEvents, scheduledTasks, unscheduledTasks, movedTasks, taskIndex,
          schedulingStartDate, schedulingEndDate, extendedDeadline, d,
          response, runs, firstResponse,
          taskTable, eventTable, calendarTable, created, call, toggle,
          freeRequest, freeWindows>>

\* the database and its clients
store == <<taskTable, eventTable, calendarTable, created, call, toggle>>

\* the calendar tools of the agent
tools == <<freeRequest, freeWindows>>

\* the state of the schedulers
scheduler == <<tasks, preferences, currentDate, existingEvents, now, pc, sortedTasks,
               allEvents, scheduledTasks, unscheduledTasks, movedTasks, taskIndex,
               schedulingStartDate, schedulingEndDate, extendedDeadline, d,
               response, runs, firstResponse>>

request == <<tasks, preferences, currentDate, existingEvents>>

-----------------------------------------------------------------------------
(* Bounds of the model *)

MaxTasks == 2
MaxEvents == 2
MaxDay == 45
MaxRuns == 2
MaxTaskDocs == 1
MaxEventDocs == 2
MaxCalendarDocs == 2

\* longest events argument of a find_free_windows call
MaxBusy == 3

-----------------------------------------------------------------------------
(* Date arithmetic *)

NaN == -1

MinutesPerDay == 24 * 60

MaxTime == MaxDay * MinutesPerDay

TimeClip(t) == IF t = NaN \/ t > MaxTime THEN NaN ELSE t

DayNames == <<"sunday", "monday", "tuesday", "wednesday", "thursday", "friday", "saturday">>

GetDay(t) == IF t = NaN THEN NaN ELSE ((t \div MinutesPerDay) + 4) % 7

DayName(t) == IF t = NaN THEN "undefined" ELSE DayNames[GetDay(t) + 1]

GetHours(t) == IF t = NaN THEN NaN ELSE (t % MinutesPerDay) \div 60

SetHours(t, h) == IF t = NaN THEN NaN ELSE (t \div MinutesPerDay) * MinutesPerDay + h * 60

\* setDate(getDate() + 7)
AddWeek(t) == IF t = NaN THEN NaN ELSE TimeClip(t + 7 * MinutesPerDay)

AddDay(t) == IF t = NaN THEN NaN ELSE TimeClip(t + MinutesPerDay)

ToISOString(t) == [date |-> t \div MinutesPerDay, tod |-> t % MinutesPerDay]

ParseISO(s) == s.date * MinutesPerDay + s.tod

DateOf(t) == ToISOString(t).date

ParseDate(s) == IF s.kind = "date" THEN s.day * MinutesPerDay ELSE NaN

Truthy(s) == s.kind # "undefined"

ParseHour(hm) == hm.hh

LocalTime(dateStr, hm) == dateStr * MinutesPerDay + hm.hh * 60 + hm.mm

Max(a, b) == IF a >= b THEN a ELSE b

MathMax(a, b) == IF a = NaN \/ b = NaN THEN NaN ELSE Max(a, b)

\* a working day that has not reached maxTasksPerDay placements yet
IsWorkingDayBelowCap(t) ==
    /\ DayName(t) \in preferences.workingDays
    /\ Cardinality({i \in 1..Len(scheduledTasks) :
                      scheduledTasks[i].startTime.date = DateOf(t)})
          < preferences.maxTasksPerDay

IsWorkingDay(t) == DayName(t) \in preferences.workingDays

-----------------------------------------------------------------------------
(* Sorting *)

Min(S) == CHOOSE x \in S : \A y \in S : x <= y

\* Array.prototype.sort is stable: x goes before the first element that the
\* comparator puts after it (the indices in later); NaN from the comparator
\* counts as +0
InsertBefore(sorted, x, later) ==
    LET p == IF later = {} THEN Len(sorted) + 1 ELSE Min(later)
    IN SubSeq(sorted, 1, p - 1) \o <<x>> \o SubSeq(sorted, p, Len(sorted))

PriorityOrder(p) == CASE p = "high" -> 0 [] p = "medium" -> 1 [] p = "low" -> 2

\* a comparator that looks at the priority only
CompareTasksByPriority(a, b) == PriorityOrder(a.priority) - PriorityOrder(b.priority)

CompareTasks(a, b) ==
    IF Truthy(a.deadline) /\ ~Truthy(b.deadline) THEN -1
    ELSE IF ~Truthy(a.deadline) /\ Truthy(b.deadline) THEN 1
    ELSE IF Truthy(a.deadline) /\ Truthy(b.deadline)
         THEN LET ta == ParseDate(a.deadline)
                  tb == ParseDate(b.deadline)
              IN IF ta = NaN \/ tb = NaN THEN 0 ELSE ta - tb
    ELSE PriorityOrder(a.priority) - PriorityOrder(b.priority)

CompareEvents(a, b) == ParseISO(a.startTime) - ParseISO(b.startTime)

RECURSIVE SortTasks(_)
SortTasks(s) ==
    IF s = <<>> THEN <<>>
    ELSE LET sorted == SortTasks(SubSeq(s, 1, Len(s) - 1))
             x == s[Len(s)]
         IN InsertBefore(sorted, x, {i \in 1..Len(sorted) : CompareTasks(sorted[i], x) > 0})

\* the comparator of line 365 is a total preorder, so the stable sort puts
\* s[i] after exactly the elements that compare lower, or equal and earlier
SortEvents(s) ==
    LET Before(i, j) == \/ CompareEvents(s[i], s[j]) < 0
                        \/ (CompareEvents(s[i], s[j]) = 0 /\ i < j)
        Rank(i) == 1 + Cardinality({j \in 1..Len(s) : Before(j, i)})
    IN [k \in 1..Len(s) |-> s[CHOOSE i \in 1..Len(s) : Rank(i) = k]]

-----------------------------------------------------------------------------
(* Per-task values *)

TaskDuration(task) == IF task.estimatedDuration # 0 THEN task.estimatedDuration ELSE 60

HasDeadline(task) == Truthy(task.deadline)

TaskDeadline(task) == ParseDate(task.deadline)

TaskStartDate(task) == IF Truthy(task.startDate) THEN ParseDate(task.startDate) ELSE currentDate

TaskId(task, index) == IF task.id # "" THEN <<task.id>> ELSE <<"task", now, index>>

CurrentTask == sortedTasks[taskIndex + 1]

-----------------------------------------------------------------------------
(* Slot search on one day *)

NoSlot == [found |-> FALSE, start |-> 0, end |-> 0, reasoning |-> "none"]

Slot(start, end, why) == [found |-> TRUE, start |-> start, end |-> end, reasoning |-> why]

\* the day's events taken from the request instead of the working copy
DayEventsOfRequest(dateStr) == SelectSeq(existingEvents, LAMBDA e : e.startTime.date = dateStr)

\* line 350
DayEvents(dateStr) == SelectSeq(allEvents, LAMBDA e : e.startTime.date = dateStr)

SortedDayEvents(dateStr) == SortEvents(DayEvents(dateStr))

RECURSIVE GapWalk(_, _, _, _, _)
GapWalk(evs, i, taskStart, bufferMs, taskDuration) ==
    IF i > Len(evs) THEN NoSlot
    ELSE LET eventStart == ParseISO(evs[i].startTime)
             eventEnd == ParseISO(evs[i].endTime)
             gapEndTime == eventStart - bufferMs
             availableTime == gapEndTime - taskStart
         IN IF availableTime >= taskDuration
            THEN Slot(taskStart, taskStart + taskDuration, "gap before event")
            ELSE GapWalk(evs, i + 1, eventEnd + bufferMs, bufferMs, taskDuration)

\* the slot after the last event is taken only when time is left over
AfterLastEventWithSlack(evs, workEnd, bufferMs, taskDuration) ==
    LET lastEvent == evs[Len(evs)]
        afterLastEvent == ParseISO(lastEvent.endTime) + bufferMs
        availableTimeAfter == workEnd - afterLastEvent
    IN IF availableTimeAfter > taskDuration
       THEN Slot(afterLastEvent, afterLastEvent + taskDuration, "after last event")
       ELSE NoSlot

AfterLastEvent(evs, workEnd, bufferMs, taskDuration) ==
    LET lastEvent == evs[Len(evs)]
        afterLastEvent == ParseISO(lastEvent.endTime) + bufferMs
        availableTimeAfter == workEnd - afterLastEvent
    IN IF availableTimeAfter >= taskDuration
       THEN Slot(afterLastEvent, afterLastEvent + taskDuration, "after last event")
       ELSE NoSlot

\* an empty day takes the task only when time is left over after it
EmptyDaySlotWithSlack(workStart, workEnd, taskDuration) ==
    IF workStart + taskDuration < workEnd
    THEN Slot(workStart, workStart + taskDuration, "start of day")
    ELSE NoSlot

\* lines 370-398
EmptyDaySlot(workStart, workEnd, taskDuration) ==
    IF workStart + taskDuration <= workEnd
    THEN Slot(workStart, workStart + taskDuration, "start of day")
    ELSE NoSlot

FindSlot(dateStr, taskDuration) ==
    LET workStart == LocalTime(dateStr, preferences.workingHours.start)
        workEnd == LocalTime(dateStr, preferences.workingHours.end)
        bufferMs == preferences.breakDuration
        evs == SortedDayEvents(dateStr)
    IN IF Len(evs) = 0
       THEN EmptyDaySlot(workStart, workEnd, taskDuration)
       ELSE LET gap == GapWalk(evs, 1, workStart, bufferMs, taskDuration)
            IN IF gap.found THEN gap
               ELSE AfterLastEvent(evs, workEnd, bufferMs, taskDuration)

-----------------------------------------------------------------------------
(* Requests the model draws from.  1970-01-05 (day 4) is a Monday. *)

HM(h, m) == [hh |-> h, mm |-> m]

Undefined == [kind |-> "undefined", day |-> 0]

Unparseable == [kind |-> "garbage", day |-> 0]

DateString(day) == [kind |-> "date", day |-> day]

ISO(date, h, m) == [date |-> date, tod |-> h * 60 + m]

Task(title, id, priority, minutes, deadline, startDate) ==
    [title |-> title, id |-> id, priority |-> priority, estimatedDuration |-> minutes,
     deadline |-> deadline, startDate |-> startDate]

TaskPool ==
    { Task("email", "", "medium", 60, Undefined, Undefined),
      Task("report", "r", "high", 500, DateString(4), Undefined),
      Task("review", "v", "low", 30, DateString(9), DateString(6)),
      Task("negative", "n", "medium", -600, Undefined, Undefined),
      Task("baddeadline", "b", "medium", 60, Unparseable, Undefined),
      Task("badstart", "s", "low", 60, Undefined, Unparseable),
      Task("memo", "m", "low", 60, DateString(4), Undefined),
      Task("deck", "d", "high", 60, DateString(9), DateString(6)),
      Task("fullday", "", "medium", 480, Undefined, Undefined) }

Event(title, startTime, endTime) == [title |-> title, startTime |-> startTime, endTime |-> endTime]

EventPool ==
    << Event("dinner", ISO(4, 18, 0), ISO(4, 19, 0)),
       Event("standup", ISO(4, 10, 0), ISO(4, 10, 30)),
       Event("workshop", ISO(4, 9, 0), ISO(4, 12, 0)),
       Event("flight", ISO(3, 22, 0), ISO(4, 10, 0)),
       Event("gym", ISO(4, 6, 0), ISO(4, 7, 0)),
       Event("lunch", ISO(6, 9, 30), ISO(6, 10, 30)) >>

WeekDays == {"monday", "tuesday", "wednesday", "thursday", "friday"}

Preferences(start, end, days, break) ==
    [workingHours |-> [start |-> start, end |-> end], workingDays |-> days,
     breakDuration |-> break, maxTasksPerDay |-> 8]

\* lines 148-155
DefaultPreferences == Preferences(HM(9, 0), HM(17, 0), WeekDays, 15)

PreferencePool ==
    { DefaultPreferences,
      Preferences(HM(9, 0), HM(17, 0), {"monday", "wednesday"}, 0),
      Preferences(HM(9, 0), HM(17, 0), {}, 15),
      Preferences(HM(9, 0), HM(9, 0), WeekDays, 15),
      Preferences(HM(9, 0), HM(10, 45), WeekDays, 15) }

ReferencePool == { ParseISO(ISO(4, 8, 0)), ParseISO(ISO(4, 10, 30)), ParseISO(ISO(8, 18, 0)) }

TaskLists == UNION { [1..n -> TaskPool] : n \in 0..MaxTasks }

RECURSIVE Pick(_, _)
Pick(pool, chosen) ==
    IF pool = <<>> THEN <<>>
    ELSE (IF Len(pool) \in chosen THEN Pick(SubSeq(pool, 1, Len(pool) - 1), chosen) \o <<pool[Len(pool)]>>
          ELSE Pick(SubSeq(pool, 1, Len(pool) - 1), chosen))

EventLists ==
    { Pick(EventPool, c) : c \in {x \in SUBSET (1..Len(EventPool)) : Cardinality(x) <= MaxEvents} }

-----------------------------------------------------------------------------
(* Responses *)

\* movedTasks: <<>> stands for undefined
Summary(total, scheduled, unscheduled, latest, workload, moved) ==
    [totalTasks |-> total, scheduledTasks |-> scheduled, unscheduledTasks |-> unscheduled,
     estimatedCompletionDate |-> latest, workloadDistribution |-> workload,
     movedTasks |-> moved]

NoResponse == [status |-> 0, schedule |-> <<>>, summary |-> Summary(0, 0, <<>>, <<>>, <<>>, <<>>)]

ErrorResponse == [status |-> 500, schedule |-> <<>>, summary |-> Summary(0, 0, <<>>, <<>>, <<>>, <<>>)]

Range(s) == {s[i] : i \in 1..Len(s)}

StartDates == {scheduledTasks[i].startTime.date : i \in 1..Len(scheduledTasks)}

\* lines 516-525 after the first n scheduled tasks; <<>> is the empty record
\* and the null latestDate; "YYYY-MM-DD" strings compare as their dates do
RECURSIVE Metrics(_)
Metrics(n) ==
    IF n = 0 THEN [workloadDistribution |-> <<>>, latestDate |-> <<>>]
    ELSE LET prev == Metrics(n - 1)
             date == scheduledTasks[n].startTime.date
         IN [workloadDistribution |->
                IF date \in DOMAIN prev.workloadDistribution
                THEN [prev.workloadDistribution EXCEPT ![date] = @ + 1]
                ELSE prev.workloadDistribution @@ (date :> 1),
             latestDate |->
                IF prev.latestDate = <<>> \/ date > prev.latestDate[1]
                THEN <<date>>
                ELSE prev.latestDate]

WorkloadDistribution == Metrics(Len(scheduledTasks)).workloadDistribution

\* the date of the task scheduled last, whichever day it is on
LatestDateOfLastTask ==
    IF scheduledTasks = <<>> THEN <<>>
    ELSE <<scheduledTasks[Len(scheduledTasks)].startTime.date>>

LatestDate == Metrics(Len(scheduledTasks)).latestDate

Result ==
    [status |-> 200, schedule |-> scheduledTasks,
     summary |-> Summary(Len(tasks), Len(scheduledTasks), unscheduledTasks,
                         LatestDate, WorkloadDistribution, movedTasks)]

-----------------------------------------------------------------------------
(* The Convex tables "tasks", "events" and "calendars" and the mutations of *)
(* src/unnamed/part_000 (api.tasks), src/convex/events.ts and               *)
(* src/convex/calendars.ts.  A table is a function from the ids of its      *)
(* documents to the documents; ids are issued in sequence and never reused. *)
(* A document carries its userId, its links and its priority fields.        *)

Users == {"u1", "u2"}

\* ctx.auth.getUserIdentity() returns null
Anonymous == "anonymous"

Callers == Users \cup {Anonymous}

\* an optional id that is absent
NoId == 0

TaskIds == 1..created.tasks

EventIds == 1..created.events

CalendarIds == 1..created.calendars

Insert(table, id, doc) == table @@ (id :> doc)

Patch(table, id, doc) == [table EXCEPT ![id] = doc]

Delete(table, id) == [i \in DOMAIN table \ {id} |-> table[i]]

\* ctx.db.get(id) returns a document and its userId is identity.subject
Owns(table, id, caller) == id \in DOMAIN table /\ table[id].userId = caller

\* the arguments of a call; an optional number is <<>> or <<n>>
NoArgs ==
    [taskId |-> NoId, eventId |-> NoId, calendarId |-> NoId, priority |-> "undefined",
     priorityValue |-> <<>>, status |-> "undefined", scheduledEventId |-> NoId]

Call(op, caller, args, result) == [op |-> op, caller |-> caller, args |-> args, result |-> result]

NoCall == Call("none", Anonymous, NoArgs, "none")

NoToggle == [taskId |-> NoId, status |-> "undefined", scheduledEventId |-> NoId, caller |-> Anonymous]

\* no find_free_windows call yet
NoFreeRequest ==
    [date |-> NaN, workingStart |-> HM(0, 0), workingEnd |-> HM(0, 0),
     bufferMinutes |-> 0, events |-> <<>>]

\* the handler throws: the transaction writes nothing
Throws(op, caller, args) ==
    /\ call' = Call(op, caller, args, "error")
    /\ UNCHANGED <<taskTable, eventTable, calendarTable, created>>

Returns(op, caller, args) == call' = Call(op, caller, args, "ok")

MathMin(a, b) == IF a = NaN \/ b = NaN THEN NaN ELSE (IF a <= b THEN a ELSE b)

\* !priorityValue
Falsy(priorityValue) ==
    priorityValue = <<>> \/ priorityValue[1] = 0 \/ priorityValue[1] = NaN

\* part_000 lines 113-123
DefaultPriorityValue(priority) ==
    CASE priority = "high" -> 2 [] priority = "medium" -> 5 [] priority = "low" -> 8

\* priorityValue < 1 || priorityValue > 10 (false for NaN)
OutOfRange(value) == value # NaN /\ (value < 1 \/ value > 10)

\* part_000 lines 92-143
CreateTask(caller, priority, priorityValue, status) ==
    LET args == [NoArgs EXCEPT !.priority = priority, !.priorityValue = priorityValue,
                               !.status = status]
        value == IF Falsy(priorityValue) THEN DefaultPriorityValue(priority)
                 ELSE priorityValue[1]
    IN IF caller = Anonymous \/ OutOfRange(value)
       THEN Throws("createTask", caller, args)
       ELSE /\ created.tasks < MaxTaskDocs
            /\ taskTable' = Insert(taskTable, created.tasks + 1,
                  [userId |-> caller, priority |-> priority, priorityValue |-> value,
                   status |-> IF status = "undefined" THEN "pending" ELSE status,
                   scheduledEventId |-> NoId])
            /\ created' = [created EXCEPT !.tasks = @ + 1]
            /\ UNCHANGED <<eventTable, calendarTable>>
            /\ Returns("createTask", caller, args)

\* part_000 lines 148-177
UpdateTaskStatus(caller, taskId, status, scheduledEventId) ==
    LET args == [NoArgs EXCEPT !.taskId = taskId, !.status = status,
                               !.scheduledEventId = scheduledEventId]
    IN IF caller = Anonymous \/ ~Owns(taskTable, taskId, caller)
       THEN Throws("updateTaskStatus", caller, args)
       ELSE /\ taskTable' = Patch(taskTable, taskId,
                  [taskTable[taskId] EXCEPT
                      !.status = status,
                      !.scheduledEventId = IF scheduledEventId # NoId THEN scheduledEventId
                                           ELSE @])
            /\ UNCHANGED <<eventTable, calendarTable, created>>
            /\ Returns("updateTaskStatus", caller, args)

\* part_000 lines 233-246
BandValue(priority, value) ==
    CASE priority = "high" -> MathMin(value, 3)
      [] priority = "medium" -> MathMax(4, MathMin(value, 6))
      [] priority = "low" -> MathMax(value, 7)

\* part_000 lines 182-256
UpdateTask(caller, taskId, priority, priorityValue) ==
    LET args == [NoArgs EXCEPT !.taskId = taskId, !.priority = priority,
                               !.priorityValue = priorityValue]
    IN IF caller = Anonymous \/ ~Owns(taskTable, taskId, caller)
       THEN Throws("updateTask", caller, args)
       ELSE IF priorityValue # <<>> /\ OutOfRange(priorityValue[1])
       THEN Throws("updateTask", caller, args)
       ELSE /\ taskTable' = Patch(taskTable, taskId,
                  [taskTable[taskId] EXCEPT
                      !.priority = IF priority # "undefined" THEN priority ELSE @,
                      !.priorityValue =
                          IF priorityValue # <<>> THEN priorityValue[1]
                          ELSE IF priority # "undefined" THEN BandValue(priority, @)
                          ELSE @])
            /\ UNCHANGED <<eventTable, calendarTable, created>>
            /\ Returns("updateTask", caller, args)

\* part_000 lines 261-280
DeleteTask(caller, taskId) ==
    LET args == [NoArgs EXCEPT !.taskId = taskId]
    IN IF caller = Anonymous \/ ~Owns(taskTable, taskId, caller)
       THEN Throws("deleteTask", caller, args)
       ELSE /\ taskTable' = Delete(taskTable, taskId)
            /\ UNCHANGED <<eventTable, calendarTable, created>>
            /\ Returns("deleteTask", caller, args)

\* part_000 lines 285-321
LinkTaskToEvent(caller, taskId, eventId) ==
    LET args == [NoArgs EXCEPT !.taskId = taskId, !.eventId = eventId]
    IN IF \/ caller = Anonymous
          \/ ~Owns(taskTable, taskId, caller)
          \/ ~Owns(eventTable, eventId, caller)
       THEN Throws("linkTaskToEvent", caller, args)
       ELSE /\ taskTable' = Patch(taskTable, taskId,
                  [taskTable[taskId] EXCEPT !.scheduledEventId = eventId,
                                            !.status = "scheduled"])
            /\ eventTable' = Patch(eventTable, eventId,
                  [eventTable[eventId] EXCEPT !.taskId = taskId])
            /\ UNCHANGED <<calendarTable, created>>
            /\ Returns("linkTaskToEvent", caller, args)

\* calendars.ts lines 35-52
CreateCalendar(caller) ==
    IF caller = Anonymous
    THEN Throws("createCalendar", caller, NoArgs)
    ELSE /\ created.calendars < MaxCalendarDocs
         /\ calendarTable' = Insert(calendarTable, created.calendars + 1, [userId |-> caller])
         /\ created' = [created EXCEPT !.calendars = @ + 1]
         /\ UNCHANGED <<taskTable, eventTable>>
         /\ Returns("createCalendar", caller, NoArgs)

\* events.ts lines 53-87
CreateEvent(caller, calendarId) ==
    LET args == [NoArgs EXCEPT !.calendarId = calendarId]
    IN IF caller = Anonymous \/ ~Owns(calendarTable, calendarId, caller)
       THEN Throws("createEvent", caller, args)
       ELSE /\ created.events < MaxEventDocs
            /\ eventTable' = Insert(eventTable, created.events + 1,
                  [userId |-> caller, calendarId |-> calendarId, taskId |-> NoId])
            /\ created' = [created EXCEPT !.events = @ + 1]
            /\ UNCHANGED <<taskTable, calendarTable>>
            /\ Returns("createEvent", caller, args)

\* events.ts lines 92-111
DeleteEvent(caller, eventId) ==
    LET args == [NoArgs EXCEPT !.eventId = eventId]
    IN IF caller = Anonymous \/ ~Owns(eventTable, eventId, caller)
       THEN Throws("deleteEvent", caller, args)
       ELSE /\ eventTable' = Delete(eventTable, eventId)
            /\ UNCHANGED <<taskTable, calendarTable, created>>
            /\ Returns("deleteEvent", caller, args)

\* events.ts lines 116-178; calendarId = NoId when the argument is absent
UpdateEvent(caller, eventId, calendarId) ==
    LET args == [NoArgs EXCEPT !.eventId = eventId, !.calendarId = calendarId]
    IN IF caller = Anonymous \/ ~Owns(eventTable, eventId, caller)
       THEN Throws("updateEvent", caller, args)
       ELSE IF calendarId # NoId /\ ~Owns(calendarTable, calendarId, caller)
       THEN Throws("updateEvent", caller, args)
       ELSE /\ eventTable' = Patch(eventTable, eventId,
                  [eventTable[eventId] EXCEPT
                      !.calendarId = IF calendarId # NoId THEN calendarId ELSE @])
            /\ UNCHANGED <<taskTable, calendarTable, created>>
            /\ Returns("updateEvent", caller, args)

-----------------------------------------------------------------------------
(* The handler *)

\* nothing has been posted and the tables are empty
Idle ==
    /\ tasks = <<>>
    /\ preferences = DefaultPreferences
    /\ currentDate = NaN
    /\ existingEvents = <<>>
    /\ now = 0
    /\ pc = "idle"
    /\ sortedTasks = <<>>
    /\ allEvents = <<>>
    /\ scheduledTasks = <<>>
    /\ unscheduledTasks = <<>>
    /\ movedTasks = <<>>
    /\ taskIndex = 0
    /\ schedulingStartDate = NaN
    /\ schedulingEndDate = NaN
    /\ extendedDeadline = NaN
    /\ d = NaN
    /\ response = NoResponse
    /\ runs = 0
    /\ firstResponse = NoResponse
    /\ taskTable = <<>>
    /\ eventTable = <<>>
    /\ calendarTable = <<>>
    /\ created = [tasks |-> 0, events |-> 0, calendars |-> 0]
    /\ call = NoCall
    /\ toggle = NoToggle

Init ==
    /\ Idle
    /\ freeRequest = NoFreeRequest
    /\ freeWindows = <<>>

\* lines 137-157: a POST arrives; its body parses against ScheduleRequestSchema
Receive ==
    /\ pc = "idle"
    /\ tasks' \in TaskLists
    /\ preferences' \in PreferencePool
    /\ currentDate' \in ReferencePool
    /\ existingEvents' \in EventLists
    /\ pc' = "request"
    /\ UNCHANGED <<store, tools, now, movedTasks, sortedTasks, allEvents, scheduledTasks, unscheduledTasks, taskIndex,
                   schedulingStartDate, schedulingEndDate, extendedDeadline, d, response,
                   runs, firstResponse>>

Respond(r) ==
    /\ response' = r
    /\ firstResponse' = IF runs = 1 THEN r ELSE firstResponse
    /\ pc' = "done"

\* lines 233-258: copy the events, sort the tasks
Invoke ==
    /\ pc = "request"
    /\ runs' = runs + 1
    /\ allEvents' = existingEvents
    /\ sortedTasks' = SortTasks(tasks)
    /\ scheduledTasks' = <<>>
    /\ unscheduledTasks' = <<>>
    /\ movedTasks' = <<>>
    /\ taskIndex' = 0
    /\ pc' = "taskLoop"
    /\ UNCHANGED <<store, tools, request, now, schedulingStartDate, schedulingEndDate,
                   extendedDeadline, d, response, firstResponse>>

\* lines 271-272: toISOString of an Invalid Date throws a RangeError, which
\* the handler's catch turns into the 500 response
ThrowRangeError ==
    /\ pc = "taskLoop"
    /\ taskIndex < Len(sortedTasks)
    /\ \/ (HasDeadline(CurrentTask) /\ TaskDeadline(CurrentTask) = NaN)
       \/ TaskStartDate(CurrentTask) = NaN
    /\ Respond(ErrorResponse)
    /\ UNCHANGED <<store, tools, request, now, movedTasks, sortedTasks, allEvents, scheduledTasks, unscheduledTasks,
                   taskIndex, schedulingStartDate, schedulingEndDate, extendedDeadline,
                   d, runs>>

\* lines 275-288: resolved earliest start, moved to the next day when after hours
ResolvedStart(task) ==
    LET start == MathMax(TaskStartDate(task), currentDate)
        currentHour == GetHours(start)
        workEndHour == ParseHour(preferences.workingHours.end)
    IN IF currentHour >= workEndHour
       THEN SetHours(AddDay(start), ParseHour(preferences.workingHours.start))
       ELSE start

\* lines 262-292
BeginTask ==
    /\ pc = "taskLoop"
    /\ taskIndex < Len(sortedTasks)
    /\ ~(HasDeadline(CurrentTask) /\ TaskDeadline(CurrentTask) = NaN)
    /\ TaskStartDate(CurrentTask) # NaN
    /\ schedulingStartDate' = ResolvedStart(CurrentTask)
    /\ pc' = IF IsWorkingDay(ResolvedStart(CurrentTask)) THEN "deadline" ELSE "rollStart"
    /\ UNCHANGED <<store, tools, request, now, movedTasks, sortedTasks, allEvents, scheduledTasks, unscheduledTasks,
                   taskIndex, schedulingEndDate, extendedDeadline, d, response, runs,
                   firstResponse>>

\* lines 294-302: one iteration of while (true)
RollStartStep ==
    /\ pc = "rollStart"
    /\ LET next == AddDay(schedulingStartDate)
       IN IF IsWorkingDay(next)
          THEN /\ schedulingStartDate' = SetHours(next, ParseHour(preferences.workingHours.start))
               /\ pc' = "deadline"
          ELSE /\ schedulingStartDate' = next
               /\ pc' = "rollStart"
    /\ UNCHANGED <<store, tools, request, now, movedTasks, sortedTasks, allEvents, scheduledTasks, unscheduledTasks,
                   taskIndex, schedulingEndDate, extendedDeadline, d, response, runs,
                   firstResponse>>

\* lines 326-329
SnapToWorkEnd(t) == SetHours(t, ParseHour(preferences.workingHours.end))

\* a default window of five weeks
DefaultEndDateOfFiveWeeks(start) == TimeClip(start + 35 * MinutesPerDay)

\* line 306: 30 * 24 * 60 * 60 * 1000 ms after the window start
DefaultEndDate(start) == TimeClip(start + 30 * MinutesPerDay)

\* lines 305-313, and 326-336 when the deadline needs no extension
ResolveDeadline ==
    /\ pc = "deadline"
    /\ LET end == IF HasDeadline(CurrentTask) THEN TaskDeadline(CurrentTask)
                  ELSE DefaultEndDate(schedulingStartDate)
       IN IF HasDeadline(CurrentTask) /\ ~IsWorkingDay(TaskDeadline(CurrentTask))
          THEN /\ schedulingEndDate' = end
               /\ extendedDeadline' = TaskDeadline(CurrentTask)
               /\ d' = d
               /\ pc' = "extend"
          ELSE /\ schedulingEndDate' = SnapToWorkEnd(end)
               /\ extendedDeadline' = extendedDeadline
               /\ d' = schedulingStartDate
               /\ pc' = "days"
    /\ UNCHANGED <<store, tools, request, now, movedTasks, sortedTasks, allEvents, scheduledTasks, unscheduledTasks,
                   taskIndex, schedulingStartDate, response, runs, firstResponse>>

\* lines 314-322: one iteration of while (true), then 326-336 once it breaks
ExtendStep ==
    /\ pc = "extend"
    /\ LET next == AddDay(extendedDeadline)
       IN IF IsWorkingDay(next)
          THEN /\ schedulingEndDate' = SnapToWorkEnd(next)
               /\ extendedDeadline' = NaN
               /\ d' = schedulingStartDate
               /\ pc' = "days"
          ELSE /\ extendedDeadline' = next
               /\ UNCHANGED <<schedulingEndDate, d, pc>>
    /\ UNCHANGED <<store, tools, request, now, movedTasks, sortedTasks, allEvents, scheduledTasks, unscheduledTasks,
                   taskIndex, schedulingStartDate, response, runs, firstResponse>>

InWindow == d # NaN /\ schedulingEndDate # NaN /\ d <= schedulingEndDate

\* line 262: taskIndex++ ; the per-task locals go out of scope
NextTask ==
    /\ taskIndex' = taskIndex + 1
    /\ schedulingStartDate' = NaN
    /\ schedulingEndDate' = NaN
    /\ extendedDeadline' = NaN
    /\ d' = NaN
    /\ pc' = "taskLoop"

\* lines 340-345
SkipDay ==
    /\ pc = "days"
    /\ InWindow
    /\ ~IsWorkingDay(d)
    /\ d' = AddDay(d)
    /\ UNCHANGED <<store, tools, request, now, movedTasks, pc, sortedTasks, allEvents, scheduledTasks, unscheduledTasks,
                   taskIndex, schedulingStartDate, schedulingEndDate, extendedDeadline,
                   response, runs, firstResponse>>

\* lines 349-494 when a slot is found on day d
PlaceOnDay ==
    /\ pc = "days"
    /\ InWindow
    /\ IsWorkingDay(d)
    /\ LET slot == FindSlot(DateOf(d), TaskDuration(CurrentTask))
       IN /\ slot.found
          /\ scheduledTasks' = Append(scheduledTasks,
                [taskId |-> TaskId(CurrentTask, taskIndex),
                 title |-> CurrentTask.title,
                 startTime |-> ToISOString(slot.start),
                 endTime |-> ToISOString(slot.end),
                 priority |-> CurrentTask.priority,
                 reasoning |-> slot.reasoning])
          /\ allEvents' = Append(allEvents,
                Event(CurrentTask.title, ToISOString(slot.start), ToISOString(slot.end)))
    /\ NextTask
    /\ UNCHANGED <<store, tools, request, now, movedTasks, sortedTasks, unscheduledTasks, response, runs, firstResponse>>

\* lines 349-494 when day d has no slot
DayFull ==
    /\ pc = "days"
    /\ InWindow
    /\ IsWorkingDay(d)
    /\ ~FindSlot(DateOf(d), TaskDuration(CurrentTask)).found
    /\ d' = AddDay(d)
    /\ UNCHANGED <<store, tools, request, now, movedTasks, pc, sortedTasks, allEvents, scheduledTasks, unscheduledTasks,
                   taskIndex, schedulingStartDate, schedulingEndDate, extendedDeadline,
                   response, runs, firstResponse>>

\* an unplaceable task ends the task loop
FailTaskFatal ==
    /\ pc = "days"
    /\ ~InWindow
    /\ unscheduledTasks' = Append(unscheduledTasks,
          [taskId |-> TaskId(CurrentTask, taskIndex),
           title |-> CurrentTask.title,
           reason |-> [text |-> "fatal", minutes |-> TaskDuration(CurrentTask), date |-> <<>>]])
    /\ taskIndex' = Len(sortedTasks)
    /\ schedulingStartDate' = NaN
    /\ schedulingEndDate' = NaN
    /\ extendedDeadline' = NaN
    /\ d' = NaN
    /\ pc' = "taskLoop"
    /\ UNCHANGED <<store, tools, request, now, movedTasks, sortedTasks, allEvents, scheduledTasks, response, runs,
                   firstResponse>>

\* lines 496-508
FailTask ==
    /\ pc = "days"
    /\ ~InWindow
    /\ unscheduledTasks' = Append(unscheduledTasks,
          [taskId |-> TaskId(CurrentTask, taskIndex),
           title |-> CurrentTask.title,
           reason |-> IF HasDeadline(CurrentTask)
                      THEN [text |-> "before effective deadline",
                            minutes |-> TaskDuration(CurrentTask),
                            date |-> <<DateOf(schedulingEndDate)>>]
                      ELSE [text |-> "30-day scheduling window",
                            minutes |-> TaskDuration(CurrentTask),
                            date |-> <<>>]])
    /\ NextTask
    /\ UNCHANGED <<store, tools, request, now, movedTasks, sortedTasks, allEvents, scheduledTasks, response, runs,
                   firstResponse>>

\* lines 511-571
Finish ==
    /\ pc = "taskLoop"
    /\ taskIndex >= Len(sortedTasks)
    /\ Respond(Result)
    /\ UNCHANGED <<store, tools, request, now, movedTasks, sortedTasks, allEvents, scheduledTasks, unscheduledTasks,
                   taskIndex, schedulingStartDate, schedulingEndDate, extendedDeadline,
                   d, runs>>

\* the client posts the same body again, later
Reinvoke ==
    /\ pc = "done"
    /\ runs < MaxRuns
    /\ now' = now + 1
    /\ pc' = "request"
    /\ response' = NoResponse
    /\ sortedTasks' = <<>>
    /\ allEvents' = <<>>
    /\ scheduledTasks' = <<>>
    /\ unscheduledTasks' = <<>>
    /\ movedTasks' = <<>>
    /\ taskIndex' = 0
    /\ UNCHANGED <<store, tools, request, schedulingStartDate, schedulingEndDate, extendedDeadline, d,
                   runs, firstResponse>>

-----------------------------------------------------------------------------
(* The copy of the scheduler in src/convex/http.ts *)

\* http.ts lines 187-195 on the titles of the pools: "gym" holds a
\* low-priority keyword, "baddeadline" the high-priority keyword "deadline"
GetEventPriority(title) ==
    IF title \in {"gym"} THEN "low"
    ELSE IF title \in {"baddeadline"} THEN "high"
    ELSE "medium"

HttpTaskId(task) == IF task.id # "" THEN <<task.id>> ELSE <<"task", now>>

\* http.ts lines 250-283: the slot found before an event, or the cursor
\* after the last event
RECURSIVE HttpGapWalk(_, _, _, _, _)
HttpGapWalk(evs, i, taskStart, bufferMs, taskDuration) ==
    IF i > Len(evs) THEN [found |-> FALSE, start |-> taskStart]
    ELSE LET eventStart == ParseISO(evs[i].startTime)
             eventEnd == ParseISO(evs[i].endTime)
             availableTime == eventStart - taskStart - bufferMs
         IN IF availableTime >= taskDuration
            THEN [found |-> TRUE, start |-> taskStart]
            ELSE HttpGapWalk(evs, i + 1, eventEnd + bufferMs, bufferMs, taskDuration)

\* http.ts lines 292-297
MoveableEvents(evs, task) ==
    SelectSeq(evs, LAMBDA e :
        PriorityOrder(GetEventPriority(e.title)) > PriorityOrder(task.priority))

\* http.ts lines 230-379: what the body of the day loop does for the task on
\* the day of d
HttpFindSlot(task) ==
    LET dateStr == DateOf(d)
        workEnd == LocalTime(dateStr, preferences.workingHours.end)
        evs == SortedDayEvents(dateStr)
        walk == HttpGapWalk(evs, 1, LocalTime(dateStr, preferences.workingHours.start),
                            preferences.breakDuration, TaskDuration(task))
        moveable == MoveableEvents(evs, task)
    IN IF walk.found
       THEN [kind |-> "gap", start |-> walk.start, reasoning |-> "available slot"]
       ELSE IF walk.start + TaskDuration(task) <= workEnd
       THEN IF HasDeadline(task) /\ Len(evs) > 0 /\ Len(moveable) > 0
            THEN [kind |-> "move", start |-> ParseISO(moveable[Len(moveable)].startTime),
                  reasoning |-> "moved an event to make room"]
            ELSE [kind |-> "end", start |-> walk.start, reasoning |-> "end of day"]
       ELSE [kind |-> "none", start |-> 0, reasoning |-> "none"]

\* the caller's list, had line 338 written startTime and endTime into the
\* event object itself
CallerEventsMovedInPlace(eventToMove, moved) ==
    [i \in 1..Len(existingEvents) |->
        IF existingEvents[i] = eventToMove THEN moved ELSE existingEvents[i]]

\* http.ts lines 199, 338-342: allEvents is a copy of the caller's array and
\* the moved event is a new object put into the copy
CallerEvents(eventToMove, moved) == existingEvents

\* http.ts lines 198-215
HttpInvoke ==
    /\ pc = "request"
    /\ runs' = runs + 1
    /\ allEvents' = existingEvents
    /\ sortedTasks' = SortTasks(tasks)
    /\ scheduledTasks' = <<>>
    /\ unscheduledTasks' = <<>>
    /\ movedTasks' = <<>>
    /\ taskIndex' = 0
    /\ pc' = "httpTaskLoop"
    /\ UNCHANGED <<store, tools, request, now, schedulingStartDate, schedulingEndDate,
                   extendedDeadline, d, response, firstResponse>>

\* http.ts lines 217-229
HttpBeginTask ==
    /\ pc = "httpTaskLoop"
    /\ taskIndex < Len(sortedTasks)
    /\ LET start == MathMax(TaskStartDate(CurrentTask), currentDate)
       IN /\ schedulingStartDate' = start
          /\ schedulingEndDate' = IF HasDeadline(CurrentTask) THEN TaskDeadline(CurrentTask)
                                  ELSE IF start = NaN THEN NaN
                                  ELSE TimeClip(start + 30 * MinutesPerDay)
          /\ d' = start
    /\ pc' = "httpDays"
    /\ UNCHANGED <<store, tools, request, now, movedTasks, sortedTasks, allEvents, scheduledTasks,
                   unscheduledTasks, taskIndex, extendedDeadline, response, runs,
                   firstResponse>>

\* http.ts lines 233-234
HttpSkipDay ==
    /\ pc = "httpDays"
    /\ InWindow
    /\ ~IsWorkingDay(d)
    /\ d' = AddDay(d)
    /\ UNCHANGED <<store, tools, request, now, movedTasks, pc, sortedTasks, allEvents, scheduledTasks,
                   unscheduledTasks, taskIndex, schedulingStartDate, schedulingEndDate,
                   extendedDeadline, response, runs, firstResponse>>

\* http.ts line 217: the next task of the for-of loop
HttpNextTask ==
    /\ taskIndex' = taskIndex + 1
    /\ schedulingStartDate' = NaN
    /\ schedulingEndDate' = NaN
    /\ extendedDeadline' = extendedDeadline
    /\ d' = NaN
    /\ pc' = "httpTaskLoop"

HttpEntry(task, slot) ==
    [taskId |-> HttpTaskId(task),
     title |-> task.title,
     startTime |-> ToISOString(slot.start),
     endTime |-> ToISOString(slot.start + TaskDuration(task)),
     priority |-> task.priority,
     reasoning |-> slot.reasoning]

\* http.ts lines 257-280 and 358-378: placed before an event or after the last
HttpPlaceOnDay ==
    /\ pc = "httpDays"
    /\ InWindow
    /\ IsWorkingDay(d)
    /\ HttpFindSlot(CurrentTask).kind \in {"gap", "end"}
    /\ LET slot == HttpFindSlot(CurrentTask)
       IN /\ scheduledTasks' = Append(scheduledTasks, HttpEntry(CurrentTask, slot))
          /\ allEvents' = Append(allEvents,
                Event(CurrentTask.title, ToISOString(slot.start),
                      ToISOString(slot.start + TaskDuration(CurrentTask))))
    /\ HttpNextTask
    /\ UNCHANGED <<store, tools, request, now, movedTasks, sortedTasks, unscheduledTasks, response, runs,
                   firstResponse>>

\* http.ts lines 290-355: a deadline task takes the place of a lower-priority
\* event of the day, which goes to working-hours start of the next day
HttpMoveEvent ==
    /\ pc = "httpDays"
    /\ InWindow
    /\ IsWorkingDay(d)
    /\ HttpFindSlot(CurrentTask).kind = "move"
    /\ LET slot == HttpFindSlot(CurrentTask)
           dateStr == DateOf(d)
           moveable == MoveableEvents(SortedDayEvents(dateStr), CurrentTask)
           eventToMove == moveable[Len(moveable)]
           eventDuration == ParseISO(eventToMove.endTime) - ParseISO(eventToMove.startTime)
           nextDateStr == DateOf(AddDay(d))
           nextWorkStart == LocalTime(nextDateStr, preferences.workingHours.start)
           moved == [eventToMove EXCEPT !.startTime = ToISOString(nextWorkStart),
                                        !.endTime = ToISOString(nextWorkStart + eventDuration)]
           eventIndex == Min({i \in 1..Len(allEvents) :
                                /\ allEvents[i].title = eventToMove.title
                                /\ allEvents[i].startTime = eventToMove.startTime})
       IN /\ scheduledTasks' = Append(scheduledTasks, HttpEntry(CurrentTask, slot))
          /\ movedTasks' = Append(movedTasks,
                [title |-> eventToMove.title, fromDate |-> dateStr, toDate |-> nextDateStr])
          /\ allEvents' = Append([allEvents EXCEPT ![eventIndex] = moved],
                Event(CurrentTask.title, ToISOString(slot.start),
                      ToISOString(slot.start + TaskDuration(CurrentTask))))
          /\ existingEvents' = CallerEvents(eventToMove, moved)
    /\ HttpNextTask
    /\ UNCHANGED <<store, tools, tasks, preferences, currentDate, now, sortedTasks, unscheduledTasks,
                   response, runs, firstResponse>>

\* http.ts line 229: no slot on the day of d, d.setDate(d.getDate() + 1)
HttpDayFull ==
    /\ pc = "httpDays"
    /\ InWindow
    /\ IsWorkingDay(d)
    /\ HttpFindSlot(CurrentTask).kind = "none"
    /\ d' = AddDay(d)
    /\ UNCHANGED <<store, tools, request, now, movedTasks, pc, sortedTasks, allEvents, scheduledTasks,
                   unscheduledTasks, taskIndex, schedulingStartDate, schedulingEndDate,
                   extendedDeadline, response, runs, firstResponse>>

\* http.ts lines 382-390
HttpFailTask ==
    /\ pc = "httpDays"
    /\ ~InWindow
    /\ unscheduledTasks' = Append(unscheduledTasks,
          [taskId |-> HttpTaskId(CurrentTask),
           title |-> CurrentTask.title,
           reason |-> IF HasDeadline(CurrentTask)
                      THEN [text |-> "before deadline", minutes |-> TaskDuration(CurrentTask),
                            date |-> <<CurrentTask.deadline>>]
                      ELSE [text |-> "scheduling window", minutes |-> TaskDuration(CurrentTask),
                            date |-> <<>>]])
    /\ HttpNextTask
    /\ UNCHANGED <<store, tools, request, now, movedTasks, sortedTasks, allEvents, scheduledTasks,
                   response, runs, firstResponse>>

\* http.ts lines 393-438
HttpFinish ==
    /\ pc = "httpTaskLoop"
    /\ taskIndex >= Len(sortedTasks)
    /\ Respond(Result)
    /\ UNCHANGED <<store, tools, request, now, movedTasks, sortedTasks, allEvents, scheduledTasks,
                   unscheduledTasks, taskIndex, schedulingStartDate, schedulingEndDate,
                   extendedDeadline, d, runs>>

HttpNext ==
    \/ HttpInvoke
    \/ HttpBeginTask
    \/ HttpSkipDay
    \/ HttpPlaceOnDay
    \/ HttpMoveEvent
    \/ HttpDayFull
    \/ HttpFailTask
    \/ HttpFinish

-----------------------------------------------------------------------------

Next ==
    \/ Receive
    \/ Invoke
    \/ ThrowRangeError
    \/ BeginTask
    \/ RollStartStep
    \/ ResolveDeadline
    \/ ExtendStep
    \/ SkipDay
    \/ PlaceOnDay
    \/ DayFull
    \/ FailTask
    \/ Finish

Spec == Init /\ [][Next]_vars

FairSpec == Spec /\ WF_vars(Next)

NextTwice == Next \/ Reinvoke

SpecTwice == Init /\ [][NextTwice]_vars

\* values of preferences.maxTasksPerDay: the default and a cap of one
MaxTasksPerDayPool == {1, 8}

\* the client posts the body again with another maxTasksPerDay and nothing
\* else changed, the clock included
Retune ==
    /\ pc = "done"
    /\ runs < MaxRuns
    /\ \E cap \in MaxTasksPerDayPool \ {preferences.maxTasksPerDay} :
          preferences' = [preferences EXCEPT !.maxTasksPerDay = cap]
    /\ pc' = "request"
    /\ response' = NoResponse
    /\ sortedTasks' = <<>>
    /\ allEvents' = <<>>
    /\ scheduledTasks' = <<>>
    /\ unscheduledTasks' = <<>>
    /\ movedTasks' = <<>>
    /\ taskIndex' = 0
    /\ UNCHANGED <<store, tools, tasks, currentDate, existingEvents, now, schedulingStartDate,
                   schedulingEndDate, extendedDeadline, d, runs, firstResponse>>

NextRetuned == Next \/ Retune

SpecRetuned == Init /\ [][NextRetuned]_vars

\* the request is served by either copy of the handler
NextEither == Next \/ HttpNext

SpecEither == Init /\ [][NextEither]_vars

-----------------------------------------------------------------------------
(* The clients of the tables *)

\* TaskList.tsx lines 74-107, up to the first mutation the flow awaits: the
\* task shown in the list is completed or reopened
HandleStatusToggle(caller, taskId) ==
    LET task == taskTable[taskId]
        isCompletingTask == task.status # "completed"
        newStatus == IF isCompletingTask THEN "completed" ELSE "pending"
        scheduledEventId == IF isCompletingTask THEN NoId ELSE task.scheduledEventId
    IN /\ toggle = NoToggle
       /\ Owns(taskTable, taskId, caller)
       /\ IF isCompletingTask /\ task.scheduledEventId # NoId
          THEN /\ DeleteEvent(caller, task.scheduledEventId)
               /\ toggle' = IF Owns(eventTable, task.scheduledEventId, caller)
                            THEN [taskId |-> taskId, status |-> newStatus,
                                  scheduledEventId |-> scheduledEventId, caller |-> caller]
                            ELSE NoToggle
          ELSE /\ UpdateTaskStatus(caller, taskId, newStatus, scheduledEventId)
               /\ toggle' = NoToggle

\* TaskList.tsx lines 93-98: the event is deleted, now the status is updated
ToggleUpdateStatus ==
    /\ toggle # NoToggle
    /\ UpdateTaskStatus(toggle.caller, toggle.taskId, toggle.status, toggle.scheduledEventId)
    /\ toggle' = NoToggle
    /\ UNCHANGED <<scheduler, tools>>

Priorities == {"high", "medium", "low"}

Statuses == {"pending", "scheduled", "completed"}

\* v.optional(v.number()): absent, NaN, and numbers below, in and above 1..10
PriorityValuePool == {<<>>} \cup {<<v>> : v \in {NaN, -5, 0, 1, 3, 4, 6, 7, 10, 11}}

\* one signed-in user works with their tasks and events
Owner == "u1"

OwnerCreateCalendar ==
    /\ CreateCalendar(Owner)
    /\ UNCHANGED <<toggle, scheduler, tools>>

OwnerCreateTask ==
    /\ CreateTask(Owner, "medium", <<>>, "undefined")
    /\ UNCHANGED <<toggle, scheduler, tools>>

OwnerCreateEvent ==
    /\ \E calendarId \in CalendarIds : CreateEvent(Owner, calendarId)
    /\ UNCHANGED <<toggle, scheduler, tools>>

OwnerLinkTaskToEvent ==
    /\ \E taskId \in TaskIds, eventId \in EventIds : LinkTaskToEvent(Owner, taskId, eventId)
    /\ UNCHANGED <<toggle, scheduler, tools>>

OwnerUpdateTaskStatus ==
    /\ \E taskId \in TaskIds, status \in Statuses, eventId \in {NoId} \cup EventIds :
          UpdateTaskStatus(Owner, taskId, status, eventId)
    /\ UNCHANGED <<toggle, scheduler, tools>>

OwnerDeleteTask ==
    /\ \E taskId \in TaskIds : DeleteTask(Owner, taskId)
    /\ UNCHANGED <<toggle, scheduler, tools>>

OwnerDeleteEvent ==
    /\ \E eventId \in EventIds : DeleteEvent(Owner, eventId)
    /\ UNCHANGED <<toggle, scheduler, tools>>

OwnerHandleStatusToggle ==
    /\ \E taskId \in TaskIds : HandleStatusToggle(Owner, taskId)
    /\ UNCHANGED <<scheduler, tools>>

NextLinks ==
    \/ OwnerCreateCalendar
    \/ OwnerCreateTask
    \/ OwnerCreateEvent
    \/ OwnerLinkTaskToEvent
    \/ OwnerUpdateTaskStatus
    \/ OwnerDeleteTask
    \/ OwnerDeleteEvent
    \/ OwnerHandleStatusToggle
    \/ ToggleUpdateStatus

SpecLinks == Init /\ [][NextLinks]_vars

\* one user creates tasks and edits their priority
OwnerCreateTaskWithPriority ==
    /\ \E priority \in Priorities, priorityValue \in PriorityValuePool :
          CreateTask(Owner, priority, priorityValue, "undefined")
    /\ UNCHANGED <<toggle, scheduler, tools>>

OwnerUpdateTask ==
    /\ \E taskId \in TaskIds, priority \in Priorities \cup {"undefined"},
          priorityValue \in PriorityValuePool :
          UpdateTask(Owner, taskId, priority, priorityValue)
    /\ UNCHANGED <<toggle, scheduler, tools>>

NextPriority ==
    \/ OwnerCreateTaskWithPriority
    \/ OwnerUpdateTask

SpecPriority == Init /\ [][NextPriority]_vars

\* two users and a client that is not signed in call every mutation
AnyoneCreateCalendar ==
    /\ \E caller \in Callers : CreateCalendar(caller)
    /\ UNCHANGED <<toggle, scheduler, tools>>

AnyoneCreateTask ==
    /\ \E caller \in Callers : CreateTask(caller, "medium", <<>>, "undefined")
    /\ UNCHANGED <<toggle, scheduler, tools>>

AnyoneUpdateTask ==
    /\ \E caller \in Callers, taskId \in TaskIds : UpdateTask(caller, taskId, "high", <<>>)
    /\ UNCHANGED <<toggle, scheduler, tools>>

AnyoneUpdateTaskStatus ==
    /\ \E caller \in Callers, taskId \in TaskIds, eventId \in {NoId} \cup EventIds :
          UpdateTaskStatus(caller, taskId, "completed", eventId)
    /\ UNCHANGED <<toggle, scheduler, tools>>

AnyoneDeleteTask ==
    /\ \E caller \in Callers, taskId \in TaskIds : DeleteTask(caller, taskId)
    /\ UNCHANGED <<toggle, scheduler, tools>>

AnyoneLinkTaskToEvent ==
    /\ \E caller \in Callers, taskId \in TaskIds, eventId \in EventIds :
          LinkTaskToEvent(caller, taskId, eventId)
    /\ UNCHANGED <<toggle, scheduler, tools>>

AnyoneCreateEvent ==
    /\ \E caller \in Callers, calendarId \in CalendarIds : CreateEvent(caller, calendarId)
    /\ UNCHANGED <<toggle, scheduler, tools>>

AnyoneUpdateEvent ==
    /\ \E caller \in Callers, eventId \in EventIds, calendarId \in {NoId} \cup CalendarIds :
          UpdateEvent(caller, eventId, calendarId)
    /\ UNCHANGED <<toggle, scheduler, tools>>

AnyoneDeleteEvent ==
    /\ \E caller \in Callers, eventId \in EventIds : DeleteEvent(caller, eventId)
    /\ UNCHANGED <<toggle, scheduler, tools>>

NextOwnership ==
    \/ AnyoneCreateCalendar
    \/ AnyoneCreateTask
    \/ AnyoneUpdateTask
    \/ AnyoneUpdateTaskStatus
    \/ AnyoneDeleteTask
    \/ AnyoneLinkTaskToEvent
    \/ AnyoneCreateEvent
    \/ AnyoneUpdateEvent
    \/ AnyoneDeleteEvent

SpecOwnership == Init /\ [][NextOwnership]_vars

-----------------------------------------------------------------------------
(* The find_free_windows tool of src/convex/schema.ts *)

\* schema.ts line 764: one element of the events argument
Busy(startTime, endTime) == [startTime |-> startTime, endTime |-> endTime]

\* schema.ts lines 767-768: new Date(`${date}T${hm}:00.000Z`).getTime()
UTCTime(date, hm) == date * MinutesPerDay + hm.hh * 60 + hm.mm

\* schema.ts line 771
TimeRange(e) == [s |-> ParseISO(e.startTime), e |-> ParseISO(e.endTime)]

\* schema.ts line 773: the stable sort by start
SortRanges(ranges) ==
    LET Before(i, j) == \/ ranges[i].s < ranges[j].s
                        \/ (ranges[i].s = ranges[j].s /\ i < j)
        Rank(i) == 1 + Cardinality({j \in 1..Len(ranges) : Before(j, i)})
    IN [k \in 1..Len(ranges) |-> ranges[CHOOSE i \in 1..Len(ranges) : Rank(i) = k]]

\* schema.ts lines 770-773
BusyRanges(events, dayStart, dayEnd) ==
    SortRanges(SelectSeq([i \in 1..Len(events) |-> TimeRange(events[i])],
                         LAMBDA r : r.s < dayEnd /\ r.e > dayStart))

\* schema.ts lines 774-778
RECURSIVE MergeRanges(_, _, _)
MergeRanges(busy, i, merged) ==
    IF i > Len(busy) THEN merged
    ELSE LET r == busy[i]
             last == Len(merged)
         IN IF last = 0 \/ r.s > merged[last].e
            THEN MergeRanges(busy, i + 1, Append(merged, r))
            ELSE MergeRanges(busy, i + 1,
                             [merged EXCEPT ![last].e = Max(merged[last].e, r.e)])

Window(freeStart, freeEnd) ==
    [startTime |-> ToISOString(freeStart), endTime |-> ToISOString(freeEnd),
     durationMinutes |-> freeEnd - freeStart]

\* the free span runs up to the start of the busy range
FreeEndWithoutBuffer(b, bufferMs) == b.s

\* schema.ts line 783
FreeEnd(b, bufferMs) == b.s - bufferMs

\* schema.ts lines 780-791
RECURSIVE WalkRanges(_, _, _, _, _, _)
WalkRanges(merged, i, cursor, bufferMs, dayEnd, windows) ==
    IF i > Len(merged)
    THEN IF dayEnd - cursor >= 5 THEN Append(windows, Window(cursor, dayEnd)) ELSE windows
    ELSE LET b == merged[i]
             freeStart == cursor
             freeEnd == FreeEnd(b, bufferMs)
         IN WalkRanges(merged, i + 1, Max(cursor, b.e + bufferMs), bufferMs, dayEnd,
                       IF freeEnd - freeStart >= 5
                       THEN Append(windows, Window(freeStart, freeEnd))
                       ELSE windows)

\* schema.ts lines 766-793
FindFreeWindows(date, workingStart, workingEnd, bufferMinutes, events) ==
    LET dayStart == UTCTime(date, workingStart)
        dayEnd == UTCTime(date, workingEnd)
        merged == MergeRanges(BusyRanges(events, dayStart, dayEnd), 1, <<>>)
    IN WalkRanges(merged, 1, dayStart, bufferMinutes, dayEnd, <<>>)

\* dates the agent asks about: a Monday and the Tuesday after it
FreeDatePool == {4, 5}

\* working hours with end > start: the default, a morning, and a window
\* shorter than the smallest free span reported
FreeHoursPool ==
    { <<HM(9, 0), HM(17, 0)>>, <<HM(9, 0), HM(11, 45)>>, <<HM(10, 30), HM(10, 34)>> }

FreeBufferPool == {0, 5, 15}

\* events of the Monday: in the morning, overlapping it, touching it, five
\* minutes after it, of no length, before hours, across the start and across
\* the end of the default hours
BusyPool ==
    { Busy(ISO(4, 10, 0), ISO(4, 11, 0)),
      Busy(ISO(4, 10, 30), ISO(4, 12, 0)),
      Busy(ISO(4, 11, 0), ISO(4, 11, 30)),
      Busy(ISO(4, 11, 5), ISO(4, 11, 20)),
      Busy(ISO(4, 14, 0), ISO(4, 14, 0)),
      Busy(ISO(4, 7, 0), ISO(4, 8, 0)),
      Busy(ISO(3, 22, 0), ISO(4, 9, 20)),
      Busy(ISO(4, 16, 50), ISO(4, 18, 0)) }

BusyLists == UNION {[1..n -> BusyPool] : n \in 0..MaxBusy}

FreeRequests ==
    {[date |-> date, workingStart |-> hours[1], workingEnd |-> hours[2],
      bufferMinutes |-> bufferMinutes, events |-> events] :
        date \in FreeDatePool, hours \in FreeHoursPool,
        bufferMinutes \in FreeBufferPool, events \in BusyLists}

\* the agent has called the tool
InitTools ==
    /\ Idle
    /\ freeRequest \in FreeRequests
    /\ freeWindows = <<>>

\* schema.ts lines 766-793: execute runs and returns
FindFreeWindowsExecute ==
    /\ freeWindows = <<>>
    /\ freeWindows' = <<FindFreeWindows(freeRequest.date, freeRequest.workingStart,
                                        freeRequest.workingEnd, freeRequest.bufferMinutes,
                                        freeRequest.events)>>
    /\ UNCHANGED <<scheduler, store, freeRequest>>

NextTools == FindFreeWindowsExecute

SpecTools == InitTools /\ [][NextTools]_vars

-----------------------------------------------------------------------------
(* Vocabulary of the properties *)

PositiveDurations == \A i \in 1..Len(tasks) : tasks[i].estimatedDuration > 0

DatesParse ==
    \A i \in 1..Len(tasks) :
        tasks[i].deadline.kind # "garbage" /\ tasks[i].startDate.kind # "garbage"

WellFormedTasks == PositiveDurations /\ DatesParse

EventsOrdered ==
    \A i \in 1..Len(existingEvents) :
        ParseISO(existingEvents[i].endTime) >= ParseISO(existingEvents[i].startTime)

StartOf(x) == ParseISO(x.startTime)

EndOf(x) == ParseISO(x.endTime)

\* the half-open intervals [s1, e1) and [s2, e2) share an instant
Intersects(s1, e1, s2, e2) == s1 < e1 /\ s2 < e2 /\ s1 < e2 /\ s2 < e1

WorkStartOn(date) == LocalTime(date, preferences.workingHours.start)

WorkEndOn(date) == LocalTime(date, preferences.workingHours.end)

\* the input task a schedule entry was made from (pool titles are distinct)
TaskOf(entry) == CHOOSE t \in Range(tasks) : t.title = entry.title

\* max(task.startDate or referenceDate, referenceDate)
EarliestStart(task) ==
    Max(IF Truthy(task.startDate) THEN ParseDate(task.startDate) ELSE currentDate, currentDate)

\* the weekday of a calendar date; 1970-01-01 was a Thursday
Weekday(date) ==
    <<"thursday", "friday", "saturday", "sunday", "monday", "tuesday", "wednesday">>[(date % 7) + 1]

\* the deadline date, rolled forward to the next working day
EffectiveDeadlineDate(task) ==
    Min({x \in task.deadline.day..(task.deadline.day + 7) :
            Weekday(x) \in preferences.workingDays})

ExistingOverlap ==
    \E i, j \in 1..Len(existingEvents) :
        /\ i # j
        /\ Intersects(StartOf(existingEvents[i]), EndOf(existingEvents[i]),
                      StartOf(existingEvents[j]), EndOf(existingEvents[j]))

-----------------------------------------------------------------------------
(* Claims *)

\* C1: no scheduled task's interval [startTime, endTime) intersects the
\* interval of any input existing event, whatever the existing events are
\* (overlapping, nested, outside working hours, begun the day before).
C1_NoOverlapWithExisting ==
    (WellFormedTasks /\ EventsOrdered) =>
        \A i \in 1..Len(scheduledTasks), j \in 1..Len(existingEvents) :
            ~Intersects(StartOf(scheduledTasks[i]), EndOf(scheduledTasks[i]),
                        StartOf(existingEvents[j]), EndOf(existingEvents[j]))

\* C2: every scheduled task of a request with positive durations starts at or
\* after working-hours start and ends at or before working-hours end of its day.
C2_WorkingHoursContainment ==
    WellFormedTasks =>
        \A i \in 1..Len(scheduledTasks) :
            /\ WorkStartOn(scheduledTasks[i].startTime.date) <= StartOf(scheduledTasks[i])
            /\ EndOf(scheduledTasks[i]) <= WorkEndOn(scheduledTasks[i].startTime.date)

\* C3: with an empty workingDays list and at least one task the invocation
\* terminates, with every task unscheduled and an empty schedule.
C3_TerminatesOnEmptyWorkingDays ==
    (pc = "request" /\ preferences.workingDays = {} /\ Len(tasks) > 0 /\ WellFormedTasks)
        ~> (/\ pc = "done"
            /\ response.status = 200
            /\ response.schedule = <<>>
            /\ Len(response.summary.unscheduledTasks) = Len(tasks))

\* C4: every scheduled task starts at or after its resolved earliest start,
\* max(task.startDate or referenceDate, referenceDate), time of day included.
C4_WindowLowerBound ==
    WellFormedTasks =>
        \A i \in 1..Len(scheduledTasks) :
            StartOf(scheduledTasks[i]) >= EarliestStart(TaskOf(scheduledTasks[i]))

\* C5: every scheduled task with a deadline is placed on a day no later than
\* its effective deadline date and ends at or before working-hours end of
\* that date.
C5_WindowUpperBound ==
    WellFormedTasks =>
        \A i \in 1..Len(scheduledTasks) :
            HasDeadline(TaskOf(scheduledTasks[i])) =>
                /\ scheduledTasks[i].startTime.date
                      <= EffectiveDeadlineDate(TaskOf(scheduledTasks[i]))
                /\ EndOf(scheduledTasks[i])
                      <= WorkEndOn(EffectiveDeadlineDate(TaskOf(scheduledTasks[i])))

\* C6: any two tasks scheduled in one invocation on the same calendar day are
\* disjoint and at least breakDuration minutes apart, for positive durations
\* and existing events with end >= start, overlapping or not.
C6_ScheduledTasksApart ==
    (WellFormedTasks /\ EventsOrdered) =>
        \A i, j \in 1..Len(scheduledTasks) :
            (i # j /\ scheduledTasks[i].startTime.date = scheduledTasks[j].startTime.date) =>
                \/ EndOf(scheduledTasks[i]) + preferences.breakDuration <= StartOf(scheduledTasks[j])
                \/ EndOf(scheduledTasks[j]) + preferences.breakDuration <= StartOf(scheduledTasks[i])

\* two tasks placed on one day whose existing events overlap each other
C6_Witness ==
    /\ WellFormedTasks
    /\ ExistingOverlap
    /\ \E i, j \in 1..Len(scheduledTasks) :
          /\ i # j
          /\ scheduledTasks[i].startTime.date = scheduledTasks[j].startTime.date
          /\ \E k \in 1..Len(existingEvents) :
                existingEvents[k].startTime.date = scheduledTasks[i].startTime.date

\* C7: with a non-empty workingDays list, the weekday of every scheduled
\* task's start date and end date is a member of workingDays, for every input.
C7_WorkingDayContainment ==
    (DatesParse /\ preferences.workingDays # {}) =>
        \A i \in 1..Len(scheduledTasks) :
            /\ Weekday(scheduledTasks[i].startTime.date) \in preferences.workingDays
            /\ Weekday(scheduledTasks[i].endTime.date) \in preferences.workingDays

\* the same containment for requests whose durations are all positive
WorkingDayContainmentOfPositiveDurations ==
    PositiveDurations => C7_WorkingDayContainment

\* C8: when workingHours.end <= workingHours.start no task is scheduled and
\* every submitted task is reported unscheduled, whatever the existing events.
C8_DegenerateHoursScheduleNothing ==
    (/\ WellFormedTasks
     /\ WorkEndOn(0) <= WorkStartOn(0)
     /\ preferences.workingDays # {}) =>
        /\ scheduledTasks = <<>>
        /\ pc = "done" => Len(response.summary.unscheduledTasks) = Len(tasks)

\* C9: two invocations with the same tasks, preferences, existingEvents and
\* explicit startDate return identical responses, whenever each of them runs.
C9_Determinism ==
    (pc = "done" /\ runs = 2) => response = firstResponse

\* C10: a request with an unparseable deadline or startDate, or a negative
\* estimatedDuration, is answered with an error and schedules nothing.
C10_MalformedRejected ==
    (pc = "done" /\ ~WellFormedTasks) => response = ErrorResponse

\* the number of entries of s made from the task with this title
Count(s, title) == Cardinality({i \in 1..Len(s) : s[i].title = title})

Titles == {tasks[i].title : i \in 1..Len(tasks)}

\* C11: with non-empty workingDays and well-formed dates, the response lists
\* each input task exactly once, in schedule or in unscheduledTasks and never
\* in both; totalTasks = number of input tasks = scheduledTasks +
\* length(unscheduledTasks); and recording a task as unscheduled leaves the
\* timeline alone and moves on to the next task in processing order.
C11_Partition ==
    /\ []((pc = "done" /\ DatesParse /\ preferences.workingDays # {}) =>
            /\ response.status = 200
            /\ \A t \in Titles :
                  Count(tasks, t) = Count(response.schedule, t)
                                      + Count(response.summary.unscheduledTasks, t)
            /\ response.summary.totalTasks = Len(tasks)
            /\ response.summary.scheduledTasks = Len(response.schedule)
            /\ response.summary.totalTasks
                  = response.summary.scheduledTasks + Len(response.summary.unscheduledTasks))
    /\ [][unscheduledTasks' # unscheduledTasks =>
            /\ Len(unscheduledTasks') = Len(unscheduledTasks) + 1
            /\ allEvents' = allEvents
            /\ scheduledTasks' = scheduledTasks
            /\ taskIndex' = taskIndex + 1
            /\ pc' = "taskLoop"]_vars

\* the first task in processing order was unscheduled and the second placed
C11_Witness ==
    /\ pc = "done"
    /\ DatesParse
    /\ preferences.workingDays # {}
    /\ Len(sortedTasks) = 2
    /\ sortedTasks[1].title # sortedTasks[2].title
    /\ Count(response.summary.unscheduledTasks, sortedTasks[1].title) = 1
    /\ Count(response.schedule, sortedTasks[2].title) = 1

DeadlinesParse == \A i \in 1..Len(tasks) : tasks[i].deadline.kind # "garbage"

\* the loop of line 262 has started on the sorted list
Sorted == pc \notin {"idle", "request"}

\* C12: in the processing order every task with a deadline precedes every
\* task without one, of two tasks with different deadlines the earlier
\* deadline comes first, and of two tasks without a deadline a high priority
\* comes before medium and medium before low; the tasks are taken up in that
\* order, one index at a time.
C12_OrderingPolicy ==
    /\ []((Sorted /\ DeadlinesParse) =>
            /\ Len(sortedTasks) = Len(tasks)
            /\ \A t \in Titles : Count(sortedTasks, t) = Count(tasks, t)
            /\ \A i, j \in 1..Len(sortedTasks) :
                  i < j =>
                    /\ ~(~HasDeadline(sortedTasks[i]) /\ HasDeadline(sortedTasks[j]))
                    /\ (HasDeadline(sortedTasks[i]) /\ HasDeadline(sortedTasks[j])) =>
                          TaskDeadline(sortedTasks[i]) <= TaskDeadline(sortedTasks[j])
                    /\ (~HasDeadline(sortedTasks[i]) /\ ~HasDeadline(sortedTasks[j])) =>
                          PriorityOrder(sortedTasks[i].priority)
                            <= PriorityOrder(sortedTasks[j].priority))
    /\ [][(Sorted /\ pc' # "request") =>
            /\ sortedTasks' = sortedTasks
            /\ taskIndex' \in {taskIndex, taskIndex + 1}]_vars

\* a finished request of two tasks that the sort reordered: the one without
\* a deadline, or with the later deadline, was listed first
C12_Witness ==
    /\ pc = "done"
    /\ DeadlinesParse
    /\ Len(tasks) = 2
    /\ sortedTasks = <<tasks[2], tasks[1]>>
    /\ \/ (~HasDeadline(tasks[1]) /\ HasDeadline(tasks[2]))
       \/ (HasDeadline(tasks[1]) /\ HasDeadline(tasks[2])
             /\ TaskDeadline(tasks[2]) < TaskDeadline(tasks[1]))

\* C13: of two tasks with the same deadline the one with the higher priority
\* is processed first, wherever the two stand in the input list.
C13_PriorityTieBreak ==
    (Sorted /\ DeadlinesParse) =>
        \A i, j \in 1..Len(sortedTasks) :
            (/\ i < j
             /\ HasDeadline(sortedTasks[i])
             /\ HasDeadline(sortedTasks[j])
             /\ TaskDeadline(sortedTasks[i]) = TaskDeadline(sortedTasks[j])) =>
                PriorityOrder(sortedTasks[i].priority) <= PriorityOrder(sortedTasks[j].priority)

\* C14: an invocation of either scheduler leaves the caller's existingEvents
\* and tasks as they were (same length, same elements, same order, same field
\* values): placed tasks and moved events go to the working copy allEvents
\* only, and the tasks are sorted in the copy sortedTasks.
C14_CopyOnEntry ==
    [][pc # "idle" => (tasks' = tasks /\ existingEvents' = existingEvents)]_vars

\* the http.ts scheduler has reordered the tasks, replaced an event of the
\* working copy and appended a placed task to it
C14_Witness ==
    /\ pc = "done"
    /\ movedTasks # <<>>
    /\ sortedTasks # tasks
    /\ Len(allEvents) > Len(existingEvents)
    /\ \E i \in 1..Len(existingEvents) : allEvents[i] # existingEvents[i]

\* C15: in both schedulers every input existing event stays in the working
\* timeline with its original startTime and endTime, no scheduled task
\* covers the start of an existing event, and summary.movedTasks is never
\* present.
C15_NoReshuffling ==
    (pc \notin {"idle", "request"} /\ WellFormedTasks /\ EventsOrdered) =>
        /\ \A i \in 1..Len(existingEvents) :
              i <= Len(allEvents) /\ allEvents[i] = existingEvents[i]
        /\ \A i \in 1..Len(scheduledTasks), j \in 1..Len(existingEvents) :
              ~(/\ StartOf(scheduledTasks[i]) <= StartOf(existingEvents[j])
                /\ StartOf(existingEvents[j]) < EndOf(scheduledTasks[i]))
        /\ movedTasks = <<>>
        /\ response.summary.movedTasks = <<>>

RECURSIVE SumOver(_, _)
SumOver(f, S) ==
    IF S = {} THEN 0
    ELSE LET x == CHOOSE y \in S : TRUE IN f[x] + SumOver(f, S \ {x})

ScheduleDates == {response.schedule[i].startTime.date : i \in 1..Len(response.schedule)}

\* C16: in every response with a summary, workloadDistribution maps each date
\* to the number of scheduled tasks whose startTime is on that date, has no
\* zero entry and sums to summary.scheduledTasks; estimatedCompletionDate is
\* the latest start date among the scheduled tasks, and null exactly when
\* none was scheduled.
C16_SummaryComputation ==
    (pc = "done" /\ response.status = 200) =>
        LET wd == response.summary.workloadDistribution
            latest == response.summary.estimatedCompletionDate
        IN /\ DOMAIN wd = ScheduleDates
           /\ \A date \in DOMAIN wd :
                 /\ wd[date] > 0
                 /\ wd[date] = Cardinality({i \in 1..Len(response.schedule) :
                                              response.schedule[i].startTime.date = date})
           /\ SumOver(wd, DOMAIN wd) = response.summary.scheduledTasks
           /\ response.summary.scheduledTasks = Len(response.schedule)
           /\ (latest = <<>>) <=> (response.schedule = <<>>)
           /\ latest # <<>> =>
                 /\ latest[1] \in ScheduleDates
                 /\ \A date \in ScheduleDates : date <= latest[1]

\* two tasks scheduled on different days, the later day first
C16_Witness ==
    /\ pc = "done"
    /\ response.status = 200
    /\ Len(response.schedule) = 2
    /\ response.schedule[1].startTime.date > response.schedule[2].startTime.date

\* C17: two invocations that differ only in preferences.maxTasksPerDay return
\* the same schedule and the same unscheduledTasks; a single day may hold
\* more scheduled tasks than maxTasksPerDay.
C17_MaxTasksPerDayNoOp ==
    (pc = "done" /\ runs = 2) =>
        /\ response.status = firstResponse.status
        /\ response.schedule = firstResponse.schedule
        /\ response.summary.unscheduledTasks = firstResponse.summary.unscheduledTasks

\* the second invocation ran with maxTasksPerDay = 1 and put two tasks on
\* one day
C17_Witness ==
    /\ pc = "done"
    /\ runs = 2
    /\ preferences.maxTasksPerDay = 1
    /\ Len(response.schedule) = 2
    /\ response.schedule[1].startTime.date = response.schedule[2].startTime.date

\* [t, t + dur) lies within the working hours of the date and keeps the
\* buffer from every occupied interval of the working timeline
FreeAt(date, t, dur) ==
    /\ WorkStartOn(date) <= t
    /\ t + dur <= WorkEndOn(date)
    /\ \A i \in 1..Len(allEvents) :
          \/ t + dur <= StartOf(allEvents[i]) - preferences.breakDuration
          \/ EndOf(allEvents[i]) + preferences.breakDuration <= t

\* the starts of the gaps of the date: working-hours start, and the end of
\* each occupied interval plus the buffer
GapStarts(date) ==
    {WorkStartOn(date)} \cup
    {EndOf(allEvents[i]) + preferences.breakDuration : i \in 1..Len(allEvents)}

FittingStarts(date, dur) == {t \in GapStarts(date) : FreeAt(date, t, dur)}

\* the events lie within working hours of their day and are pairwise at
\* least the buffer apart
TidyEvents ==
    /\ \A i \in 1..Len(existingEvents) :
          /\ StartOf(existingEvents[i]) < EndOf(existingEvents[i])
          /\ existingEvents[i].startTime.date = existingEvents[i].endTime.date
          /\ WorkStartOn(existingEvents[i].startTime.date) <= StartOf(existingEvents[i])
          /\ EndOf(existingEvents[i]) <= WorkEndOn(existingEvents[i].startTime.date)
    /\ \A i, j \in 1..Len(existingEvents) :
          i # j =>
            \/ EndOf(existingEvents[i]) + preferences.breakDuration <= StartOf(existingEvents[j])
            \/ EndOf(existingEvents[j]) + preferences.breakDuration <= StartOf(existingEvents[i])

\* the step places the current task
Places == pc = "days" /\ Len(scheduledTasks') = Len(scheduledTasks) + 1

FirstFitStep ==
    LET entry == scheduledTasks'[Len(scheduledTasks')]
        dur == TaskDuration(CurrentTask)
        date == entry.startTime.date
    IN /\ FittingStarts(date, dur) # {}
       /\ StartOf(entry) = Min(FittingStarts(date, dur))
       /\ EndOf(entry) = StartOf(entry) + dur
       /\ \A x \in DateOf(schedulingStartDate)..(date - 1) :
             Weekday(x) \in preferences.workingDays => FittingStarts(x, dur) = {}
       /\ pc' = "taskLoop"

\* C18: a task is placed on the first working day of its window that has a
\* fitting gap, at the start of the earliest gap of that day that is at
\* least as long as the task, the gaps being what working-hours start, the
\* occupied intervals widened by the buffer, and working-hours end leave;
\* once it is placed the next task is taken up.
C18_FirstFit ==
    [][(Places /\ WellFormedTasks /\ EventsOrdered) => FirstFitStep]_vars

\* the same for requests whose events lie within working hours, apart
FirstFitAmongTidyEvents ==
    [][(Places /\ WellFormedTasks /\ TidyEvents) => FirstFitStep]_vars

\* minutes into the day of an instant, and of an "HH:MM" string
TimeOfDay(t) == t % MinutesPerDay

HourMinute(hm) == hm.hh * 60 + hm.mm

\* the first working day after the date
NextWorkingDate(date) == Min({x \in (date + 1)..(date + 7) : Weekday(x) \in preferences.workingDays})

\* C19: the window of a task starts at working-hours start of the next
\* working day after the lower bound's day exactly when the lower bound's
\* time of day is at or after working-hours end, compared as HH:MM; when it
\* is before working-hours end and the day is a working day, the window
\* starts on the lower bound's own day.
C19_AfterHoursRollOver ==
    (pc \in {"deadline", "extend", "days"} /\ DatesParse /\ preferences.workingDays # {}) =>
        LET lb == EarliestStart(CurrentTask)
            late == TimeOfDay(lb) >= HourMinute(preferences.workingHours.end)
        IN /\ late => schedulingStartDate = WorkStartOn(NextWorkingDate(DateOf(lb)))
           /\ (~late /\ Weekday(DateOf(lb)) \in preferences.workingDays) =>
                 DateOf(schedulingStartDate) = DateOf(lb)

\* the first calendar day of the window of a task: the day of its lower
\* bound, or the day after when the lower bound is past working-hours end
FirstCandidateDate(task) ==
    IF TimeOfDay(EarliestStart(task)) >= HourMinute(preferences.workingHours.end)
    THEN DateOf(EarliestStart(task)) + 1
    ELSE DateOf(EarliestStart(task))

\* some working day from the date through the effective deadline date of
\* the task has a gap that fits it
FitsBeforeDeadline(task, from) ==
    \E x \in from..EffectiveDeadlineDate(task) :
        /\ Weekday(x) \in preferences.workingDays
        /\ FittingStarts(x, TaskDuration(task)) # {}

\* the day loop of a task with a deadline is running or has just ended
DeadlineTaskInDays ==
    /\ pc = "days"
    /\ WellFormedTasks
    /\ EventsOrdered
    /\ preferences.workingDays # {}
    /\ HasDeadline(CurrentTask)

\* C20: the last candidate day of a task with a deadline is the deadline
\* day when that is a working day and the next working day after it
\* otherwise; the task is never placed later than that day, and it is given
\* up as unscheduled only if no working day from its lower bound through
\* that day has a fitting slot.
C20_DeadlineExtension ==
    /\ [](DeadlineTaskInDays =>
            /\ DateOf(schedulingEndDate) = EffectiveDeadlineDate(CurrentTask)
            /\ (InWindow => DateOf(d) <= EffectiveDeadlineDate(CurrentTask))
            /\ (~InWindow =>
                  ~FitsBeforeDeadline(CurrentTask, FirstCandidateDate(CurrentTask))))
    /\ [][(DeadlineTaskInDays /\ Len(scheduledTasks') = Len(scheduledTasks) + 1) =>
            scheduledTasks'[Len(scheduledTasks')].startTime.date
                <= EffectiveDeadlineDate(CurrentTask)]_vars

\* the same, counting the days from the first day the day loop tries
DeadlineExtensionFromLoopStart ==
    DeadlineTaskInDays =>
        /\ DateOf(schedulingEndDate) = EffectiveDeadlineDate(CurrentTask)
        /\ (~InWindow /\ schedulingStartDate # NaN) =>
              ~FitsBeforeDeadline(CurrentTask, DateOf(schedulingStartDate))

\* the k-th working day counted from the date, the date included
KthWorkingDate(from, k) ==
    CHOOSE x \in from..(from + 7 * k) :
        /\ Weekday(x) \in preferences.workingDays
        /\ Cardinality({y \in from..x : Weekday(y) \in preferences.workingDays}) = k

\* no existing events, a reference instant before working-hours start on a
\* working day, and at least one task, each without deadline and startDate
\* and as long as the working hours
FullDayRequest ==
    /\ pc \notin {"idle", "request"}
    /\ existingEvents = <<>>
    /\ Weekday(DateOf(currentDate)) \in preferences.workingDays
    /\ TimeOfDay(currentDate) < HourMinute(preferences.workingHours.start)
    /\ Len(tasks) > 0
    /\ \A i \in 1..Len(tasks) :
          /\ ~HasDeadline(tasks[i])
          /\ ~Truthy(tasks[i].startDate)
          /\ TaskDuration(tasks[i]) = WorkEndOn(0) - WorkStartOn(0)

\* C21: with no existing events, a lower bound before working-hours start on
\* a working day and N tasks without deadline or startDate that each last
\* the whole working-hours span, the k-th task in processing order is
\* scheduled on the k-th working day from the lower bound, from working-hours
\* start to working-hours end, whatever the breakDuration; none is
\* unscheduled and no day receives two tasks.
C21_OneFullDayTaskPerDay ==
    FullDayRequest =>
        /\ unscheduledTasks = <<>>
        /\ Len(scheduledTasks) = (IF pc = "done" THEN Len(tasks) ELSE taskIndex)
        /\ \A k \in 1..Len(scheduledTasks) :
              LET date == KthWorkingDate(DateOf(currentDate), k)
              IN /\ scheduledTasks[k].title = sortedTasks[k].title
                 /\ StartOf(scheduledTasks[k]) = WorkStartOn(date)
                 /\ EndOf(scheduledTasks[k]) = WorkEndOn(date)
        /\ \A i, j \in 1..Len(scheduledTasks) :
              i # j => scheduledTasks[i].startTime.date # scheduledTasks[j].startTime.date
        /\ pc = "done" =>
              /\ response.status = 200
              /\ response.schedule = scheduledTasks
              /\ response.summary.unscheduledTasks = <<>>

\* two full-day tasks answered with a buffer between tasks in force
C21_Witness ==
    /\ FullDayRequest
    /\ pc = "done"
    /\ preferences.breakDuration > 0
    /\ Len(response.schedule) = 2

\* the task is longer than the working hours of a day
Oversized(task) == TaskDuration(task) > WorkEndOn(0) - WorkStartOn(0)

\* every oversized task of the request is listed as unscheduled, the ones
\* with a deadline with a reason that cites the effective deadline
OversizedReported ==
    \A t \in Range(tasks) :
        Oversized(t) =>
            /\ Count(response.summary.unscheduledTasks, t.title) = Count(tasks, t.title)
            /\ \A i \in 1..Len(response.summary.unscheduledTasks) :
                  (response.summary.unscheduledTasks[i].title = t.title /\ HasDeadline(t)) =>
                      /\ response.summary.unscheduledTasks[i].reason.text
                            = "before effective deadline"
                      /\ response.summary.unscheduledTasks[i].reason.date
                            = <<EffectiveDeadlineDate(t)>>

OversizedNeverPlaced ==
    /\ \A i \in 1..Len(scheduledTasks) : ~Oversized(TaskOf(scheduledTasks[i]))
    /\ (pc = "done" /\ preferences.workingDays # {}) => OversizedReported

\* C22: a task whose duration exceeds the working-hours span is never
\* scheduled, whatever the existing events are; it is listed in
\* summary.unscheduledTasks, with a reason that cites the effective deadline
\* when the task has a deadline.
C22_OversizedTaskReported ==
    (WellFormedTasks /\ EventsOrdered) => OversizedNeverPlaced

\* the same for requests whose events lie within working hours, apart
OversizedReportedAmongTidyEvents ==
    (WellFormedTasks /\ TidyEvents) => OversizedNeverPlaced

\* an oversized task with a deadline was reported next to an existing event
\* of its day that lies within working hours
OversizedAmongTidyEventsReached ==
    /\ pc = "done"
    /\ WellFormedTasks
    /\ TidyEvents
    /\ existingEvents # <<>>
    /\ \E t \in Range(tasks) :
          /\ Oversized(t)
          /\ HasDeadline(t)
          /\ Count(response.summary.unscheduledTasks, t.title) = 1
          /\ \E i \in 1..Len(existingEvents) :
                existingEvents[i].startTime.date = t.deadline.day

\* the day loop of a task without a deadline is running or has just ended
NoDeadlineTaskInDays ==
    /\ pc = "days"
    /\ DatesParse
    /\ ~HasDeadline(CurrentTask)

\* the last calendar day of the default window
DefaultWindowEnd == DateOf(schedulingStartDate) + 30

\* the working days of the default window
DefaultWindowDays ==
    {x \in DateOf(schedulingStartDate)..DefaultWindowEnd : Weekday(x) \in preferences.workingDays}

ThirtyDayReason(task) ==
    [text |-> "30-day scheduling window", minutes |-> TaskDuration(task), date |-> <<>>]

\* C23: a task without a deadline is never scheduled on a calendar day later
\* than 30 days after its resolved lower bound (the start of its window);
\* when the scan has found every working day of that window too full, the
\* task is reported unscheduled with the 30-day-window reason and nothing is
\* placed for it.
C23_DefaultWindow ==
    /\ [](NoDeadlineTaskInDays =>
            /\ DateOf(schedulingEndDate) = DefaultWindowEnd
            /\ InWindow => DateOf(d) <= DefaultWindowEnd
            /\ ~InWindow =>
                  \A x \in DefaultWindowDays : ~FindSlot(x, TaskDuration(CurrentTask)).found)
    /\ [][(NoDeadlineTaskInDays /\ Len(scheduledTasks') = Len(scheduledTasks) + 1) =>
            /\ scheduledTasks'[Len(scheduledTasks')].startTime.date <= DefaultWindowEnd
            /\ scheduledTasks'[Len(scheduledTasks')].endTime.date <= DefaultWindowEnd]_vars
    /\ [][(NoDeadlineTaskInDays /\ ~InWindow) =>
            /\ Len(unscheduledTasks') = Len(unscheduledTasks) + 1
            /\ unscheduledTasks'[Len(unscheduledTasks')].title = CurrentTask.title
            /\ unscheduledTasks'[Len(unscheduledTasks')].reason = ThirtyDayReason(CurrentTask)
            /\ scheduledTasks' = scheduledTasks
            /\ allEvents' = allEvents]_vars

\* of two tasks without a deadline one was placed and the other, after a
\* scan of its whole window, reported with the 30-day-window reason
C23_Witness ==
    /\ pc = "done"
    /\ WellFormedTasks
    /\ Len(response.schedule) = 1
    /\ ~HasDeadline(TaskOf(response.schedule[1]))
    /\ Len(response.summary.unscheduledTasks) = 1
    /\ response.summary.unscheduledTasks[1].reason.text = "30-day scheduling window"

\* the cursor of the gap walk before the i-th event of the day, and the
\* length of the gap it leaves before that event, the buffer taken off
CursorBefore(evs, i, date) ==
    IF i = 1 THEN WorkStartOn(date) ELSE EndOf(evs[i - 1]) + preferences.breakDuration

GapBefore(evs, i, date) ==
    (StartOf(evs[i]) - preferences.breakDuration) - CursorBefore(evs, i, date)

\* the step places the current task on [t, t + its duration)
PlacesAt(t) ==
    /\ Len(scheduledTasks') = Len(scheduledTasks) + 1
    /\ scheduledTasks'[Len(scheduledTasks')].title = CurrentTask.title
    /\ StartOf(scheduledTasks'[Len(scheduledTasks')]) = t
    /\ EndOf(scheduledTasks'[Len(scheduledTasks')]) = t + TaskDuration(CurrentTask)
    /\ pc' = "taskLoop"

ExactFitStep ==
    LET date == DateOf(d)
        dur == TaskDuration(CurrentTask)
        evs == SortedDayEvents(date)
        NoGapYet(i) == \A j \in 1..(i - 1) : GapBefore(evs, j, date) < dur
        afterLast == EndOf(evs[Len(evs)]) + preferences.breakDuration
    IN /\ (Len(evs) = 0 /\ WorkEndOn(date) - WorkStartOn(date) = dur) =>
             PlacesAt(WorkStartOn(date))
       /\ \A i \in 1..Len(evs) :
             (GapBefore(evs, i, date) = dur /\ NoGapYet(i)) =>
                 PlacesAt(CursorBefore(evs, i, date))
       /\ (Len(evs) > 0 /\ NoGapYet(Len(evs) + 1) /\ WorkEndOn(date) - afterLast = dur) =>
             PlacesAt(afterLast)

\* C24: a task is placed when the available span equals its duration
\* exactly: on an empty day with workEnd - workStart = duration, in the
\* first gap before an event with (eventStart - buffer) - cursor = duration,
\* and after the last event with workEnd - (lastEnd + buffer) = duration.
C24_ExactFit ==
    [][(pc = "days" /\ InWindow /\ IsWorkingDay(d)) => ExactFitStep]_vars

\* one response with a task that fills an empty working day exactly and a
\* task that fills the gap before an existing event exactly
C24_Witness ==
    /\ pc = "done"
    /\ \E i, j \in 1..Len(response.schedule) :
          /\ response.schedule[i].reasoning = "start of day"
          /\ StartOf(response.schedule[i]) = WorkStartOn(response.schedule[i].startTime.date)
          /\ EndOf(response.schedule[i]) = WorkEndOn(response.schedule[i].startTime.date)
          /\ response.schedule[j].reasoning = "gap before event"
          /\ \E k \in 1..Len(existingEvents) :
                EndOf(response.schedule[j]) + preferences.breakDuration
                    = StartOf(existingEvents[k])

\* a task placed after the last event of its day ends at working-hours end
ExactFitAfterLastEventReached ==
    /\ pc = "done"
    /\ \E i \in 1..Len(response.schedule) :
          /\ response.schedule[i].reasoning = "after last event"
          /\ StartOf(response.schedule[i]) < EndOf(response.schedule[i])
          /\ EndOf(response.schedule[i]) = WorkEndOn(response.schedule[i].startTime.date)

\* every existing event has end > start, starts and ends on one calendar
\* day inside the working hours, and no two of them overlap
OrderlyEvents ==
    /\ \A i \in 1..Len(existingEvents) :
          /\ StartOf(existingEvents[i]) < EndOf(existingEvents[i])
          /\ existingEvents[i].startTime.date = existingEvents[i].endTime.date
          /\ WorkStartOn(existingEvents[i].startTime.date) <= StartOf(existingEvents[i])
          /\ EndOf(existingEvents[i]) <= WorkEndOn(existingEvents[i].startTime.date)
    /\ \A i, j \in 1..Len(existingEvents) :
          i # j => ~Intersects(StartOf(existingEvents[i]), EndOf(existingEvents[i]),
                               StartOf(existingEvents[j]), EndOf(existingEvents[j]))

\* x ends at least the buffer before y starts, or the other way round
Apart(x, y) ==
    \/ EndOf(x) + preferences.breakDuration <= StartOf(y)
    \/ EndOf(y) + preferences.breakDuration <= StartOf(x)

\* every placed task lies within the working hours of a working day, the
\* buffer away from the existing events and the other placed tasks of the day
TimelineInvariant ==
    \A i \in 1..Len(scheduledTasks) :
        LET x == scheduledTasks[i]
            date == x.startTime.date
        IN /\ Weekday(date) \in preferences.workingDays
           /\ WorkStartOn(date) <= StartOf(x)
           /\ StartOf(x) <= EndOf(x)
           /\ EndOf(x) <= WorkEndOn(date)
           /\ \A j \in 1..Len(existingEvents) :
                 existingEvents[j].startTime.date = date => Apart(x, existingEvents[j])
           /\ \A k \in 1..Len(scheduledTasks) :
                 (k # i /\ scheduledTasks[k].startTime.date = date) =>
                     Apart(x, scheduledTasks[k])

\* C25: if every existing event has end > start, starts and ends on one
\* calendar day inside [workStart, workEnd], and the existing events are
\* pairwise non-overlapping, then in every state of the task loop every
\* placed task lies inside [workStart, workEnd] of a working day and is at
\* least breakDuration minutes away from every existing event and every
\* other placed task of that day.
C25_ConditionalTimeline ==
    OrderlyEvents => TimelineInvariant

\* the same for requests whose durations are all positive
ConditionalTimelineOfPositiveDurations ==
    (OrderlyEvents /\ PositiveDurations) => TimelineInvariant

\* two tasks of positive duration placed on the day of an existing event
ConditionalTimelineReached ==
    /\ OrderlyEvents
    /\ PositiveDurations
    /\ Len(scheduledTasks) = 2
    /\ scheduledTasks[1].startTime.date = scheduledTasks[2].startTime.date
    /\ \E j \in 1..Len(existingEvents) :
          existingEvents[j].startTime.date = scheduledTasks[1].startTime.date

\* the request has working days and dates that parse
NonDegenerate == DatesParse /\ preferences.workingDays # {}

\* day-steps the roll-forward of the window start has taken so far
RollSteps == DateOf(schedulingStartDate) - DateOf(ResolvedStart(CurrentTask))

\* day-steps the extension of the deadline has taken so far
ExtendSteps == DateOf(extendedDeadline) - CurrentTask.deadline.day

\* the last day the day loop of the current task may visit
LastScanDate ==
    IF HasDeadline(CurrentTask) THEN EffectiveDeadlineDate(CurrentTask)
    ELSE DateOf(schedulingStartDate) + 30

BoundedLoops ==
    /\ pc = "rollStart" => RollSteps \in 0..6
    /\ (pc \in {"deadline", "extend", "days"}) => RollSteps \in 0..7
    /\ pc = "extend" => ExtendSteps \in 0..6
    /\ (pc = "days" /\ HasDeadline(CurrentTask)) =>
          DateOf(schedulingEndDate) - CurrentTask.deadline.day \in 0..7
    /\ pc = "days" =>
          /\ DateOf(EarliestStart(CurrentTask)) <= DateOf(schedulingStartDate)
          /\ DateOf(schedulingStartDate) <= DateOf(d)
          /\ InWindow => DateOf(d) <= LastScanDate
          /\ (InWindow /\ ~HasDeadline(CurrentTask)) =>
                DateOf(d) - DateOf(schedulingStartDate) < 31

\* a step that stays in a loop moves its date on by one day
LoopProgress ==
    /\ (pc = "rollStart" /\ pc' = "rollStart") =>
          schedulingStartDate' = schedulingStartDate + MinutesPerDay
    /\ (pc = "extend" /\ pc' = "extend") =>
          extendedDeadline' = extendedDeadline + MinutesPerDay
    /\ (pc = "days" /\ pc' = "days") => d' = d + MinutesPerDay

\* C26: when workingDays is non-empty and all dates parse, the scheduler
\* terminates for every task; each roll-forward loop (window start and
\* deadline extension) finishes within 7 day-steps, and the day-by-day scan
\* of a task visits at most the days from the lower bound to the effective
\* deadline, at most 31 days when the task has no deadline.
C26_BoundedScan ==
    /\ (pc = "request" /\ NonDegenerate) ~> (pc = "done" /\ response.status = 200)
    /\ [](NonDegenerate => BoundedLoops)
    /\ [][NonDegenerate => LoopProgress]_vars

\* a request received on a day before a non-working day, late in the day,
\* has been answered after the window start was rolled forward and a task
\* was scanned over its whole default window
C26_Witness ==
    /\ pc = "done"
    /\ NonDegenerate
    /\ Weekday(DateOf(currentDate) + 1) \notin preferences.workingDays
    /\ TimeOfDay(currentDate) >= HourMinute(preferences.workingHours.end)
    /\ \E i \in 1..Len(response.summary.unscheduledTasks) :
          response.summary.unscheduledTasks[i].reason.text = "30-day scheduling window"

\* the task's scheduledEventId names an event that exists and names the task
TaskLinkLive(taskId) ==
    taskTable[taskId].scheduledEventId # NoId =>
        /\ taskTable[taskId].scheduledEventId \in DOMAIN eventTable
        /\ eventTable[taskTable[taskId].scheduledEventId].taskId = taskId

\* the event's taskId names a task that exists and names the event
EventLinkLive(eventId) ==
    eventTable[eventId].taskId # NoId =>
        /\ eventTable[eventId].taskId \in DOMAIN taskTable
        /\ taskTable[eventTable[eventId].taskId].scheduledEventId = eventId

\* C27: after any sequence of createTask, createEvent, linkTaskToEvent,
\* updateTaskStatus, deleteTask and deleteEvent calls by one user, the
\* complete/uncomplete flow of the task list included, every task whose
\* scheduledEventId is set refers to an event that still exists and whose
\* taskId is that task, and every event whose taskId is set refers to an
\* existing task whose scheduledEventId is that event.
C27_LinkBidirectionalAndLive ==
    toggle = NoToggle =>
        /\ \A taskId \in DOMAIN taskTable : TaskLinkLive(taskId)
        /\ \A eventId \in DOMAIN eventTable : EventLinkLive(eventId)

\* the flow of the task list has completed a linked task: its event is
\* deleted, its status is updated, and its scheduledEventId still names the
\* deleted event
ToggleLeftDanglingLink ==
    /\ toggle = NoToggle
    /\ call = Call("updateTaskStatus", Owner,
                   [NoArgs EXCEPT !.taskId = 1, !.status = "completed"], "ok")
    /\ 1 \in DOMAIN taskTable
    /\ taskTable[1].status = "completed"
    /\ taskTable[1].scheduledEventId # NoId
    /\ taskTable[1].scheduledEventId \notin DOMAIN eventTable

\* linkTaskToEvent alone leaves both directions of the link in place
LinkStepLinksBothSides ==
    [][(call' # call /\ call'.op = "linkTaskToEvent" /\ call'.result = "ok") =>
          /\ taskTable'[call'.args.taskId].scheduledEventId = call'.args.eventId
          /\ taskTable'[call'.args.taskId].status = "scheduled"
          /\ eventTable'[call'.args.eventId].taskId = call'.args.taskId]_vars

\* the number is not one of 1..10 (NaN is not)
OutsideOneToTen(value) == value = NaN \/ value < 1 \/ value > 10

\* the band of a priority label
Band(priority) ==
    CASE priority = "high" -> 1..3 [] priority = "medium" -> 4..6 [] priority = "low" -> 7..10

StoredValuesInRange ==
    \A taskId \in DOMAIN taskTable : ~OutsideOneToTen(taskTable[taskId].priorityValue)

\* the step is a call of createTask or updateTask
PriorityCall == call' # call /\ call'.op \in {"createTask", "updateTask"}

\* a call with an explicit priorityValue outside 1..10 fails and leaves the
\* task table as it was
ExplicitOutsideFails ==
    (/\ PriorityCall
     /\ call'.args.priorityValue # <<>>
     /\ OutsideOneToTen(call'.args.priorityValue[1])) =>
        (call'.result = "error" /\ taskTable' = taskTable)

\* updateTask with a priority label and no priorityValue puts the stored
\* value into the band of the label
LabelOnlyLandsInBand ==
    (/\ PriorityCall
     /\ call'.op = "updateTask"
     /\ call'.result = "ok"
     /\ call'.args.priority # "undefined"
     /\ call'.args.priorityValue = <<>>) =>
        taskTable'[call'.args.taskId].priorityValue \in Band(call'.args.priority)

\* C28: after any sequence of createTask and updateTask calls every stored
\* task has 1 <= priorityValue <= 10; a createTask or updateTask call with an
\* explicit priorityValue outside 1..10 fails and leaves the task table
\* unchanged; and when updateTask changes only the priority label, the
\* stored priorityValue lands in the label's band (high 1..3, medium 4..6,
\* low 7..10).
C28_PriorityValueRange ==
    /\ []StoredValuesInRange
    /\ [][ExplicitOutsideFails]_vars
    /\ [][LabelOnlyLandsInBand]_vars

\* the same, leaving aside the values 0 and NaN in the arguments
PriorityValueRangeOfOrdinaryNumbers ==
    /\ [](\A taskId \in DOMAIN taskTable :
             taskTable[taskId].priorityValue = NaN
                \/ ~OutsideOneToTen(taskTable[taskId].priorityValue))
    /\ [][(call'.args.priorityValue # <<>> => call'.args.priorityValue[1] \notin {0, NaN}) =>
             ExplicitOutsideFails]_vars
    /\ [][(\A taskId \in DOMAIN taskTable : taskTable[taskId].priorityValue # NaN) =>
             LabelOnlyLandsInBand]_vars

\* a label-only update moved a stored value into another band
LabelOnlyUpdateReached ==
    /\ call.op = "updateTask"
    /\ call.result = "ok"
    /\ call.args.priority = "low"
    /\ call.args.priorityValue = <<>>
    /\ taskTable[call.args.taskId].priorityValue = 7

\* the document exists and belongs to somebody else
Foreign(table, id, user) == id \in DOMAIN table /\ table[id].userId # user

\* a table keeps the documents of everybody but the user as they are
OthersUntouched(before, after, user) ==
    \A id \in DOMAIN before :
        before[id].userId # user => (id \in DOMAIN after /\ after[id] = before[id])

\* the documents the step adds to a table belong to the user
NewOnesOwned(before, after, user) ==
    \A id \in DOMAIN after \ DOMAIN before : after[id].userId = user

\* the step of an authenticated user touches the user's documents only, and
\* an event it creates or moves sits on a calendar of the user
StaysWithCaller ==
    call'.caller \in Users =>
        /\ OthersUntouched(taskTable, taskTable', call'.caller)
        /\ OthersUntouched(eventTable, eventTable', call'.caller)
        /\ OthersUntouched(calendarTable, calendarTable', call'.caller)
        /\ NewOnesOwned(taskTable, taskTable', call'.caller)
        /\ NewOnesOwned(eventTable, eventTable', call'.caller)
        /\ NewOnesOwned(calendarTable, calendarTable', call'.caller)
        /\ \A id \in DOMAIN eventTable' :
              (id \notin DOMAIN eventTable
                  \/ eventTable'[id].calendarId # eventTable[id].calendarId) =>
                 Owns(calendarTable, eventTable'[id].calendarId, call'.caller)

\* the call names a task, an event or a calendar of another user
NamesForeign(args, user) ==
    \/ Foreign(taskTable, args.taskId, user)
    \/ Foreign(eventTable, args.eventId, user)
    \/ Foreign(eventTable, args.scheduledEventId, user)
    \/ Foreign(calendarTable, args.calendarId, user)

Rejected ==
    /\ call'.result = "error"
    /\ UNCHANGED <<taskTable, eventTable, calendarTable>>

\* C29: a task or event mutation invoked by authenticated user u never
\* creates, modifies or deletes a document whose userId differs from u and
\* never attaches an event to a calendar owned by another user; an
\* unauthenticated call, or a call naming another user's task, event or
\* calendar, fails and leaves all tables unchanged.
C29_OwnershipIsolation ==
    [][/\ StaysWithCaller
       /\ (call'.caller = Anonymous \/ NamesForeign(call'.args, call'.caller)) => Rejected]_vars

\* the same, leaving aside the scheduledEventId argument of updateTaskStatus
OwnershipIsolationOfCheckedArguments ==
    [][/\ StaysWithCaller
       /\ (\/ call'.caller = Anonymous
           \/ NamesForeign([call'.args EXCEPT !.scheduledEventId = NoId], call'.caller)) =>
             Rejected]_vars

\* a task of one user names an event of another
TaskNamesForeignEvent ==
    \E taskId \in DOMAIN taskTable :
        Foreign(eventTable, taskTable[taskId].scheduledEventId, taskTable[taskId].userId)

\* a call naming another user's calendar was rejected
ForeignCalendarRejected ==
    /\ call.op = "updateEvent"
    /\ call.caller \in Users
    /\ Foreign(calendarTable, call.args.calendarId, call.caller)
    /\ call.result = "error"

\* the array the tool returned
ReturnedWindows == freeWindows[1]

WorkingStart == UTCTime(freeRequest.date, freeRequest.workingStart)

WorkingEnd == UTCTime(freeRequest.date, freeRequest.workingEnd)

\* the input events that overlap the working window
OverlappingEvents ==
    {e \in {TimeRange(freeRequest.events[i]) : i \in 1..Len(freeRequest.events)} :
        e.s < WorkingEnd /\ e.e > WorkingStart}

WindowStart(w) == ParseISO(w.startTime)

WindowEnd(w) == ParseISO(w.endTime)

\* the window is long enough, inside the working hours, clear of every
\* overlapping event, and the buffer away from the events before and after
WindowIsFree(w) ==
    /\ WindowEnd(w) - WindowStart(w) >= 5
    /\ WorkingStart <= WindowStart(w)
    /\ WindowEnd(w) <= WorkingEnd
    /\ \A e \in OverlappingEvents :
          /\ ~(e.s < WindowEnd(w) /\ e.e > WindowStart(w))
          /\ e.s <= WindowStart(w) => e.e + freeRequest.bufferMinutes <= WindowStart(w)
          /\ e.s > WindowStart(w) => WindowEnd(w) + freeRequest.bufferMinutes <= e.s

====
